---- MODULE Spec2Model ----
(***************************************************************************)
(* A model of the request builder, the error classifier, the asynchronous  *)
(* poller and the public query functions of pubchempy.py.                  *)
(*                                                                         *)
(* Text is modelled as a sequence of tokens: an identifier is the sequence *)
(* of its characters, a keyword (a namespace, a domain, an operation, an   *)
(* output format) is one token.  A URL is the token sequence obtained by   *)
(* joining its segments with "/" tokens, as "/".join does.                 *)
(***************************************************************************)
EXTENDS Integers, Sequences, FiniteSets, TLC

(***************************************************************************)
(* Bounds of the model.                                                    *)
(***************************************************************************)
\* the service answers at most MaxWaiting requests of one call with a
\* waiting envelope
MaxWaiting == 2

(***************************************************************************)
(* Values.                                                                 *)
(***************************************************************************)
\* Python's None for a keyword argument
None == "<None>"

\* the fixed delay between two polls, time.sleep(2)
PollDelay == 2

API_BASE == "https://pubchem.ncbi.nlm.nih.gov/rest/pug"

\* identifiers as the caller passes them: None, a str, an int, a list of int
IdNone == [t |-> "none", v |-> <<>>]
IdStr(s) == [t |-> "str", v |-> s]
IdInt(n) == [t |-> "int", v |-> n]
IdList(l) == [t |-> "list", v |-> l]

(***************************************************************************)
(* Text helpers.                                                           *)
(***************************************************************************)
Digit(d) == CASE d = 0 -> "0" [] d = 1 -> "1" [] d = 2 -> "2" [] d = 3 -> "3"
              [] d = 4 -> "4" [] d = 5 -> "5" [] d = 6 -> "6" [] d = 7 -> "7"
              [] d = 8 -> "8" [] OTHER -> "9"

\* str(n) for a natural number n
RECURSIVE IntToStr(_)
IntToStr(n) == IF n < 10 THEN <<Digit(n)>>
               ELSE IntToStr(n \div 10) \o <<Digit(n % 10)>>

\* sep.join(parts)
RECURSIVE Join(_, _)
Join(parts, sep) ==
    IF parts = <<>> THEN <<>>
    ELSE IF Len(parts) = 1 THEN Head(parts)
    ELSE Head(parts) \o sep \o Join(Tail(parts), sep)

\* s.replace(old, new) for one-character old and new
Replace(s, old, new) == [i \in 1..Len(s) |-> IF s[i] = old THEN new ELSE s[i]]

\* urllib.parse.quote: "/" is safe, reserved characters are percent-encoded
QuoteChar(c) == CASE c = "," -> "%2C"
                  [] c = " " -> "%20"
                  [] OTHER -> c
quote(s) == [i \in 1..Len(s) |-> QuoteChar(s[i])]

\* urllib.parse.quote_plus, which urlencode applies to names and values
QuotePlusChar(c) == CASE c = "," -> "%2C"
                      [] c = " " -> "+"
                      [] c = "/" -> "%2F"
                      [] OTHER -> c
quote_plus(s) == [i \in 1..Len(s) |-> QuotePlusChar(s[i])]

\* urlencode([(name, value)])
urlencode(name, value) == <<name, "=">> \o quote_plus(value)

\* Falsy as `identifier is None` would have it
FalsyNoneOnly(identifier) == identifier.t = "none"

\* Python truthiness of an identifier: `not identifier`
Falsy(identifier) ==
    \/ identifier.t = "none"
    \/ identifier.t = "str" /\ identifier.v = <<>>
    \/ identifier.t = "list" /\ identifier.v = <<>>
    \/ identifier.t = "int" /\ identifier.v = 0

\* the identifier as request turns it into a string
IdentifierString(identifier) ==
    CASE identifier.t = "int" -> IntToStr(identifier.v)
      [] identifier.t = "str" -> identifier.v
      [] identifier.t = "list" ->
            Join([i \in 1..Len(identifier.v) |-> IntToStr(identifier.v[i])],
                 <<",">>)
      [] OTHER -> <<>>

\* Python truthiness of an optional keyword: `if searchtype`
Truthy(kw) == kw /= None /\ kw /= ""

(***************************************************************************)
(* request: the URL and the POST body.                                     *)
(***************************************************************************)
\* InPath without the clause `searchtype and namespace == "cid"`
InPathNoCid(namespace, domain, searchtype) ==
    \/ namespace \in {"listkey", "formula", "sourceid"}
    \/ searchtype = "xref"
    \/ domain = "sources"

\* the condition of request for placing the identifier in the URL path
InPath(namespace, domain, searchtype) ==
    \/ namespace \in {"listkey", "formula", "sourceid"}
    \/ searchtype = "xref"
    \/ (Truthy(searchtype) /\ namespace = "cid")
    \/ domain = "sources"

\* NormalId without the replacement for sourceid
NormalIdAsGiven(identifier, namespace) == IdentifierString(identifier)

\* the identifier after request's normalisation
NormalId(identifier, namespace) ==
    IF namespace = "sourceid"
    THEN Replace(IdentifierString(identifier), "/", ".")
    ELSE IdentifierString(identifier)

\* urlid: <<quoted identifier>> when it goes in the path, <<>> for None
UrlId(identifier, namespace, domain, searchtype) ==
    IF InPath(namespace, domain, searchtype)
    THEN <<quote(NormalId(identifier, namespace))>>
    ELSE <<>>

\* postdata: <<encoded form>> when the identifier goes in the body, <<>> for None
PostData(identifier, namespace, domain, searchtype) ==
    IF InPath(namespace, domain, searchtype)
    THEN <<>>
    ELSE <<urlencode(namespace, NormalId(identifier, namespace))>>

\* filter(None, [keyword]): a keyword segment, dropped when None or empty
Seg(kw) == IF Truthy(kw) THEN <<(<<kw>>)>> ELSE <<>>

\* filter(None, [urlid]): the path identifier, dropped when None or empty
IdSeg(urlid) == IF urlid /= <<>> /\ urlid[1] /= <<>> THEN <<urlid[1]>> ELSE <<>>

\* comps, the segments of the URL in their fixed order
Comps(identifier, namespace, domain, operation, output, searchtype) ==
    <<(<<API_BASE>>)>> \o Seg(domain) \o Seg(searchtype) \o Seg(namespace)
      \o IdSeg(UrlId(identifier, namespace, domain, searchtype))
      \o Seg(operation) \o Seg(output)

\* the request that urlopen sends; the arguments are kept beside the URL
BuildRequest(identifier, namespace, domain, operation, output, searchtype) ==
    [ url |-> Join(Comps(identifier, namespace, domain, operation, output,
                         searchtype), <<"/">>),
      postdata |-> PostData(identifier, namespace, domain, searchtype),
      urlid |-> UrlId(identifier, namespace, domain, searchtype),
      identifier |-> identifier,
      namespace |-> namespace,
      domain |-> domain,
      operation |-> operation,
      output |-> output,
      searchtype |-> searchtype ]

(***************************************************************************)
(* create_http_error: the error classifier.                                *)
(***************************************************************************)
\* an exception: its class, and the fields of a PubChemHTTPError
Exc(cls, code, msg, details) ==
    [cls |-> cls, code |-> code, msg |-> msg, details |-> details]

\* an exception that is not a PubChemHTTPError carries no HTTP fields
PlainExc(cls) == Exc(cls, 0, <<>>, <<>>)

\* ErrorClass with the entry for 503 left out of error_map
ErrorClassNo503(code) ==
    CASE code = 400 -> "BadRequestError"
      [] code = 404 -> "NotFoundError"
      [] code = 405 -> "MethodNotAllowedError"
      [] code = 500 -> "ServerError"
      [] code = 501 -> "UnimplementedError"
      [] code = 504 -> "TimeoutError"
      [] OTHER -> "PubChemHTTPError"

\* error_map.get(code, PubChemHTTPError)
ErrorClass(code) ==
    CASE code = 400 -> "BadRequestError"
      [] code = 404 -> "NotFoundError"
      [] code = 405 -> "MethodNotAllowedError"
      [] code = 500 -> "ServerError"
      [] code = 501 -> "UnimplementedError"
      [] code = 503 -> "ServerBusyError"
      [] code = 504 -> "TimeoutError"
      [] OTHER -> "PubChemHTTPError"

\* the body of a failed exchange, by what json.loads(...)["Fault"] makes of it:
\*   "empty"    no body, b""            json.loads raises ValueError
\*   "text"     not JSON                json.loads raises ValueError
\*   "array"    JSON, not an object     subscripting raises TypeError
\*   "object"   an object, no Fault     subscripting raises KeyError
\*   "scalar"   Fault is not an object  fault.get raises AttributeError
\*   "fault"    Fault is an object with optional Code, Message, Details
\* Code, Message and Details are <<>> when absent and <<value>> when present.
FaultBody(shape, Code, Message, Details) ==
    [shape |-> shape, Code |-> Code, Message |-> Message, Details |-> Details]

\* the statements of the try block; what they raise, or "" when they complete
FaultRaises(body) ==
    CASE body.shape \in {"empty", "text"} -> "ValueError"
      [] body.shape = "array" -> "TypeError"
      [] body.shape = "object" -> "KeyError"
      [] body.shape = "scalar" -> "AttributeError"
      [] OTHER -> ""

\* FaultMsg without the statement that appends the fault Message
FaultMsgNoMessage(reason, body) ==
    IF body.shape /= "fault" THEN <<reason>>
    ELSE IF body.Code /= <<>> THEN <<body.Code[1]>> ELSE <<reason>>

\* msg after the try block
FaultMsg(reason, body) ==
    IF body.shape /= "fault" THEN <<reason>>
    ELSE (IF body.Code /= <<>> THEN <<body.Code[1]>> ELSE <<reason>>)
         \o (IF body.Message /= <<>> THEN <<": ", body.Message[1]>> ELSE <<>>)

\* details after the try block
FaultDetails(body) ==
    IF body.shape = "fault" /\ body.Details /= <<>> THEN body.Details[1] ELSE <<>>

\* create_http_error(e) for e = HTTPError(code, reason, body): the error it
\* returns, or the exception that escapes its except clause
create_http_error(e) ==
    IF FaultRaises(e.body) \in {"", "ValueError", "IndexError", "KeyError"}
    THEN [threw |-> FALSE,
          exc |-> Exc(ErrorClass(e.code), e.code, FaultMsg(e.reason, e.body),
                      FaultDetails(e.body))]
    ELSE [threw |-> TRUE, exc |-> PlainExc(FaultRaises(e.body))]

\* the classes derived from PubChemHTTPError
HTTPErrorClasses ==
    {"PubChemHTTPError", "BadRequestError", "NotFoundError",
     "MethodNotAllowedError", "ServerError", "UnimplementedError",
     "ServerBusyError", "TimeoutError"}

(***************************************************************************)
(* Compound: the atoms and bonds derived from a record.                    *)
(*                                                                         *)
(* A record holds the parallel arrays aid and element, the list charge of  *)
(* [aid, value] entries (empty when the block is absent), coords and bonds *)
(* (<<>> when the block is absent, <<block>> when present) and cid (<<>>   *)
(* or <<n>>).  A coords block holds aid, x, y, z (z empty when absent),    *)
(* hasz (whether the conformer has a z key at all) and style (<<>> or      *)
(* <<[aid1, aid2, annotation]>>).                                          *)
(***************************************************************************)
Range(seq) == {seq[i] : i \in 1..Len(seq)}

Min(a, b) == IF a < b THEN a ELSE b

\* Atom(aid, number): no coordinates (<<>> is None), charge 0
Atom(aid, number) ==
    [aid |-> aid, number |-> number, x |-> <<>>, y |-> <<>>, z |-> <<>>,
     charge |-> 0]

\* Bond(aid1, aid2, order): no style (<<>> is None)
Bond(aid1, aid2, order) ==
    [aid1 |-> aid1, aid2 |-> aid2, order |-> order, style |-> <<>>]

\* d[k] = v on a dict d
Put(d, k, v) == [x \in (DOMAIN d) \cup {k} |-> IF x = k THEN v ELSE d[x]]

\* the loop `for aid, element in zip(aids, elements)` from entry i on
RECURSIVE CreateAtoms(_, _, _, _)
CreateAtoms(atoms, aids, elements, i) ==
    IF i > Min(Len(aids), Len(elements)) THEN atoms
    ELSE CreateAtoms(Put(atoms, aids[i], Atom(aids[i], elements[i])),
                     aids, elements, i + 1)

\* the loop over zip_longest(coord_ids, xs, ys, zs) from entry i on; a
\* coordinate id that is no key of _atoms raises KeyError
RECURSIVE FillCoords(_, _, _)
FillCoords(atoms, c, i) ==
    IF i > Len(c.aid) THEN [exc |-> "", atoms |-> atoms]
    ELSE IF c.aid[i] \notin DOMAIN atoms
         THEN [exc |-> "KeyError", atoms |-> atoms]
         ELSE FillCoords(
                [atoms EXCEPT ![c.aid[i]].x = <<c.x[i]>>,
                              ![c.aid[i]].y = <<c.y[i]>>,
                              ![c.aid[i]].z = IF i <= Len(c.z) THEN <<c.z[i]>>
                                              ELSE <<>>],
                c, i + 1)

\* the loop over record["atoms"]["charge"] from entry i on
RECURSIVE FillCharges(_, _, _)
FillCharges(atoms, charges, i) ==
    IF i > Len(charges) THEN [exc |-> "", atoms |-> atoms]
    ELSE IF charges[i].aid \notin DOMAIN atoms
         THEN [exc |-> "KeyError", atoms |-> atoms]
         ELSE FillCharges([atoms EXCEPT ![charges[i].aid].charge = charges[i].value],
                          charges, i + 1)

\* CoordsMismatch without the clause on z
CoordsMismatchNoZ(c, atoms) ==
    ~(Len(c.aid) = Len(c.x) /\ Len(c.x) = Len(c.y)
      /\ Len(c.y) = Cardinality(DOMAIN atoms))

\* the length check of the coordinate block
CoordsMismatch(c, atoms) ==
    \/ ~(Len(c.aid) = Len(c.x) /\ Len(c.x) = Len(c.y)
         /\ Len(c.y) = Cardinality(DOMAIN atoms))
    \/ (c.z /= <<>> /\ Len(c.z) /= Len(c.aid))

\* Compound._setup_atoms: the exception it raises ("" for none) and _atoms
\* as it leaves it
SetupAtoms(record) ==
    IF Len(record.aid) /= Len(record.element)
    THEN [exc |-> "ResponseParseError", atoms |-> <<>>]
    ELSE LET created == CreateAtoms(<<>>, record.aid, record.element, 1)
             filled == IF record.coords = <<>>
                       THEN [exc |-> "", atoms |-> created]
                       ELSE IF CoordsMismatch(record.coords[1], created)
                            THEN [exc |-> "ResponseParseError", atoms |-> created]
                            ELSE FillCoords(created, record.coords[1], 1)
         IN  IF filled.exc /= "" THEN filled
             ELSE FillCharges(filled.atoms, record.charge, 1)

\* CreateBonds keeping the first Bond listed for a pair
RECURSIVE CreateBondsKeepFirst(_, _, _)
CreateBondsKeepFirst(bonds, b, i) ==
    IF i > Len(b.aid1) THEN bonds
    ELSE CreateBondsKeepFirst(
           IF {b.aid1[i], b.aid2[i]} \in DOMAIN bonds THEN bonds
           ELSE Put(bonds, {b.aid1[i], b.aid2[i]},
                    Bond(b.aid1[i], b.aid2[i], b.order[i])),
           b, i + 1)

\* the loop `for aid1, aid2, order in zip(aid1s, aid2s, orders)`
RECURSIVE CreateBonds(_, _, _)
CreateBonds(bonds, b, i) ==
    IF i > Len(b.aid1) THEN bonds
    ELSE CreateBonds(Put(bonds, {b.aid1[i], b.aid2[i]},
                         Bond(b.aid1[i], b.aid2[i], b.order[i])),
                     b, i + 1)

\* FillStyles attaching a style only to a Bond listed in the same order
RECURSIVE FillStylesOrdered(_, _, _)
FillStylesOrdered(bonds, st, i) ==
    IF i > Min(Len(st.aid1), Min(Len(st.aid2), Len(st.annotation)))
    THEN [exc |-> "", bonds |-> bonds]
    ELSE IF {st.aid1[i], st.aid2[i]} \notin DOMAIN bonds
         THEN [exc |-> "KeyError", bonds |-> bonds]
         ELSE FillStylesOrdered(
                IF bonds[{st.aid1[i], st.aid2[i]}].aid1 = st.aid1[i]
                THEN [bonds EXCEPT ![{st.aid1[i], st.aid2[i]}].style =
                                       <<st.annotation[i]>>]
                ELSE bonds,
                st, i + 1)

\* the loop `for aid1, aid2, style in zip(aid1s, aid2s, styles)`; a pair
\* that is no key of _bonds raises KeyError
RECURSIVE FillStyles(_, _, _)
FillStyles(bonds, st, i) ==
    IF i > Min(Len(st.aid1), Min(Len(st.aid2), Len(st.annotation)))
    THEN [exc |-> "", bonds |-> bonds]
    ELSE IF {st.aid1[i], st.aid2[i]} \notin DOMAIN bonds
         THEN [exc |-> "KeyError", bonds |-> bonds]
         ELSE FillStyles(
                [bonds EXCEPT ![{st.aid1[i], st.aid2[i]}].style =
                                  <<st.annotation[i]>>],
                st, i + 1)

\* Compound._setup_bonds: the exception it raises ("" for none) and _bonds
\* as it leaves it
SetupBonds(record) ==
    IF record.bonds = <<>> THEN [exc |-> "", bonds |-> <<>>]
    ELSE LET b == record.bonds[1] IN
         IF ~(Len(b.aid1) = Len(b.aid2) /\ Len(b.aid2) = Len(b.order))
         THEN [exc |-> "ResponseParseError", bonds |-> <<>>]
         ELSE LET created == CreateBonds(<<>>, b, 1) IN
              IF record.coords /= <<>> /\ record.coords[1].style /= <<>>
              THEN FillStyles(created, record.coords[1].style[1], 1)
              ELSE [exc |-> "", bonds |-> created]

\* Compound(record): the record setter runs _setup_atoms, then _setup_bonds;
\* _bonds is still the empty dict of __init__ when _setup_atoms raises
NewCompound(record) ==
    LET a == SetupAtoms(record)
        b == SetupBonds(record)
    IN  IF a.exc /= ""
        THEN [exc |-> a.exc, record |-> record, atoms |-> a.atoms, bonds |-> <<>>]
        ELSE [exc |-> b.exc, record |-> record, atoms |-> a.atoms,
              bonds |-> b.bonds]

\* compound.record = record on a Compound that exists: _atoms is reset by
\* _setup_atoms, _bonds by _setup_bonds, which does not run when
\* _setup_atoms raises
SetRecord(old, record) ==
    LET a == SetupAtoms(record)
        b == SetupBonds(record)
    IN  IF a.exc /= ""
        THEN [exc |-> a.exc, record |-> record, atoms |-> a.atoms,
              bonds |-> old.bonds]
        ELSE [exc |-> b.exc, record |-> record, atoms |-> a.atoms,
              bonds |-> b.bonds]

(***************************************************************************)
(* The service: what it can answer to one request.                         *)
(***************************************************************************)
\* a response body of a successful exchange: bytes that are JSON or not; a
\* JSON body is an object with one top-level key `top` ("" for the empty
\* object {}) holding the key `sub`; records are compound records, ids are
\* the items of any other list, key is the ListKey of a waiting envelope
Body(json, top, sub, records, ids, key) ==
    [json |-> json, top |-> top, sub |-> sub, records |-> records,
     ids |-> ids, key |-> key]

\* {"Waiting": {"ListKey": key}}
WaitingBody(key) == Body(TRUE, "Waiting", "ListKey", <<>>, <<>>, key)

\* `"Waiting" in status and "ListKey" in status["Waiting"]`
IsWaiting(status) == status.json /\ status.top = "Waiting" /\ status.sub = "ListKey"

\* the poll tokens the service hands out
Tokens == { <<"k", "1">>, <<"k", "2">> }

\* a record of two atoms and one double bond
GoodRecord ==
    [aid |-> <<1, 2>>, element |-> <<6, 8>>, charge |-> <<>>, coords |-> <<>>,
     bonds |-> <<[aid1 |-> <<1>>, aid2 |-> <<2>>, order |-> <<2>>]>>,
     cid |-> <<7>>]

\* a record whose atom arrays differ in length
BadRecord ==
    [aid |-> <<1, 2, 3>>, element |-> <<6, 8>>, charge |-> <<>>,
     coords |-> <<>>, bonds |-> <<>>, cid |-> <<7>>]

\* the JSON payloads that are no waiting envelope
Documents ==
    { Body(TRUE, "PC_Compounds", "", <<GoodRecord>>, <<>>, <<>>),
      Body(TRUE, "PC_Compounds", "", <<GoodRecord, BadRecord>>, <<>>, <<>>),
      Body(TRUE, "PC_Substances", "", <<>>, <<11>>, <<>>),
      Body(TRUE, "PC_AssayContainer", "", <<>>, <<12>>, <<>>),
      Body(TRUE, "PropertyTable", "Properties", <<>>, <<13>>, <<>>),
      Body(TRUE, "InformationList", "Information", <<>>, <<14>>, <<>>),
      Body(TRUE, "InformationList", "SourceName", <<>>, <<15>>, <<>>),
      Body(TRUE, "IdentifierList", "CID", <<>>, <<16, 17>>, <<>>),
      Body(TRUE, "IdentifierList", "SID", <<>>, <<18>>, <<>>),
      Body(TRUE, "IdentifierList", "AID", <<>>, <<19>>, <<>>),
      Body(TRUE, "Waiting", "", <<>>, <<>>, <<>>),
      Body(TRUE, "", "", <<>>, <<>>, <<>>) }

\* a payload that is not JSON (SDF, PNG, ...)
RawBodies == { Body(FALSE, "", "", <<>>, <<20>>, <<>>) }

\* the status codes of failed exchanges
StatusCodes == {400, 404, 405, 500, 501, 503, 504, 418}

\* the reason phrase the service sends with a status code
ReasonPhrase(code) ==
    CASE code = 400 -> "Bad Request"
      [] code = 404 -> "Not Found"
      [] code = 405 -> "Method Not Allowed"
      [] code = 500 -> "Internal Server Error"
      [] code = 501 -> "Not Implemented"
      [] code = 503 -> "Service Unavailable"
      [] code = 504 -> "Gateway Timeout"
      [] OTHER -> "I'm a teapot"

\* the fault bodies of the failed exchanges of a call
CallFaults ==
    { FaultBody("empty", <<>>, <<>>, <<>>),
      FaultBody("array", <<>>, <<>>, <<>>),
      FaultBody("fault", <<"PUGREST.Fault">>, <<"m">>, << <<"d">> >>) }

\* a response: the status code, the reason phrase and the body
Response(code, reason, body) == [code |-> code, reason |-> reason, body |-> body]

OkResponses(bodies) == { Response(200, "OK", b) : b \in bodies }

ErrorResponses(codes, faults) ==
    { Response(c, ReasonPhrase(c), f) : c \in codes, f \in faults }

\* the failed exchanges of a call: every status code with an empty body, and
\* 404 and 503 with each of the fault bodies
CallErrors ==
    ErrorResponses(StatusCodes, {FaultBody("empty", <<>>, <<>>, <<>>)})
      \cup ErrorResponses({404, 503}, CallFaults)

\* the number of waiting envelopes among the responses
RECURSIVE WaitingCount(_)
WaitingCount(rs) ==
    IF rs = <<>> THEN 0
    ELSE (IF rs[1].code = 200 /\ IsWaiting(rs[1].body) THEN 1 ELSE 0)
         + WaitingCount(Tail(rs))

\* what the service may answer after the responses rs
ServiceResponses(rs) ==
    OkResponses(Documents \cup RawBodies)
      \cup CallErrors
      \cup (IF WaitingCount(rs) < MaxWaiting
            THEN OkResponses({WaitingBody(k) : k \in Tokens}) ELSE {})

(***************************************************************************)
(* The state of one call of a public function.                             *)
(***************************************************************************)
VARIABLES
    fn,          \* the function the caller calls
    args,        \* the arguments of the call
    pc,          \* "call", then inside get "poll" or "final", "ret" when get
                 \* has returned or raised, "done" when fn has
    identifier,  \* get's local identifier
    namespace,   \* get's local namespace
    status,      \* get's local status: <<>> or <<decoded body>>
    response,    \* get's local response: <<>> or <<body>>
    raised,      \* <<>> or <<the exception that left get>>
    requests,    \* the requests urlopen has sent, in order
    responses,   \* the responses of the service, in order
    times,       \* the time each request was sent at
    now,         \* the clock
    outcome,     \* what fn returned or raised
    self,        \* the entity (a Compound, a Substance) the caller holds
    threads,     \* the position and locals of each thread using the entity
    file,        \* the file at the path of download: <<>> or <<its contents>>
    log          \* the calls on the entity that have ended, in order

\* the state outside the call itself
world == <<self, threads, file, log>>

vars == <<fn, args, pc, identifier, namespace, status, response, raised,
          requests, responses, times, now, outcome, self, threads, file, log>>

\* no entity; no thread; no file; no call on the entity
NoEntity == [cls |-> ""]
NoThreads == <<>>
NoFile == <<>>
NoLog == <<>>

\* the arguments of a call
Args(id, ns, domain, operation, output, searchtype) ==
    [identifier |-> id, namespace |-> ns, domain |-> domain,
     operation |-> operation, output |-> output, searchtype |-> searchtype]

\* a returned value: a body, None, a list of items or one entity
Value(t, body, items) == [t |-> t, body |-> body, items |-> items]
NoneValue == Value("none", <<>>, <<>>)
BodyValue(b) == Value("body", <<b>>, <<>>)
ListValue(items) == Value("list", <<>>, items)
EntityValue(e) == Value("entity", <<>>, <<e>>)

NoOutcome == [kind |-> "none", exc |-> PlainExc(""), value |-> NoneValue]
Returns(v) == [kind |-> "return", exc |-> PlainExc(""), value |-> v]
Raises(e) == [kind |-> "raise", exc |-> e, value |-> NoneValue]

(***************************************************************************)
(* request.                                                                *)
(***************************************************************************)
\* request(...) answered by resp: the request it sent and the response it
\* got (none when the identifier is rejected), and either the exception it
\* raises or the body that .read() returns
RequestStep(a, resp) ==
    IF Falsy(a.identifier)
    THEN [sent |-> <<>>, got |-> <<>>, raised |-> <<PlainExc("ValueError")>>,
          body |-> <<>>]
    ELSE LET req == BuildRequest(a.identifier, a.namespace, a.domain,
                                 a.operation, a.output, a.searchtype)
         IN  IF resp.code = 200
             THEN [sent |-> <<req>>, got |-> <<resp>>, raised |-> <<>>,
                   body |-> <<resp.body>>]
             ELSE [sent |-> <<req>>, got |-> <<resp>>,
                   raised |-> <<create_http_error(resp).exc>>, body |-> <<>>]

\* the requests, responses and send times after a step taken at time t
Logged(step, t) ==
    /\ requests' = requests \o step.sent
    /\ responses' = responses \o step.got
    /\ times' = times \o (IF step.sent = <<>> THEN <<>> ELSE <<t>>)

(***************************************************************************)
(* get.                                                                    *)
(***************************************************************************)
\* the functions that go through get
GetFunctions ==
    {"get", "get_json", "get_sdf", "get_compounds", "get_substances",
     "get_assays", "get_properties", "get_synonyms", "get_cids", "get_sids",
     "get_aids", "get_all_sources", "download"}

\* the condition of get for taking the polling path
PollingPath(a) ==
    (Truthy(a.searchtype) /\ a.searchtype /= "xref") \/ a.namespace \in {"formula"}

\* the arguments of the first request of the polling path: no operation,
\* output JSON
FirstArgs(id, ns, a) == Args(id, ns, a.domain, None, "JSON", a.searchtype)

\* PollArgs polling with the caller's identifier and namespace
PollArgsNoListKey(id, ns, a) ==
    Args(a.identifier, a.namespace, a.domain, a.operation, "JSON", None)

\* the arguments of a poll request: the operation, output JSON, the search
\* type left at its default
PollArgs(id, ns, a) == Args(id, ns, a.domain, a.operation, "JSON", None)

\* the arguments of the last request of the polling path and of the only
\* request of the other path
PlainArgs(id, ns, a) ==
    Args(id, ns, a.domain, a.operation, a.output, a.searchtype)

\* status["Waiting"]["ListKey"], the new identifier
ListKey(st) == IdStr(st.key)

\* AfterFirst that never enters the loop
AfterFirstNoLoop(st) == "ret"

\* where get goes after decoding the first response
AfterFirst(st) == IF IsWaiting(st) THEN "poll" ELSE "ret"

\* AfterPoll with an `if` for the `while`: one poll, whatever it answers
AfterPollOnce(st, output) == IF output /= "JSON" THEN "final" ELSE "ret"

\* where get goes after decoding the response to a poll
AfterPoll(st, output) ==
    IF IsWaiting(st) THEN "poll"
    ELSE IF output /= "JSON" THEN "final"
    ELSE "ret"

\* get returns the body or raises the exception of a step
GetLeaves(step) ==
    /\ pc' = "ret"
    /\ raised' = step.raised
    /\ response' = step.body
    /\ UNCHANGED <<identifier, namespace, status>>

\* json.loads(response.decode()) fails on a body that is not JSON
GetDecodeFails(step) ==
    /\ pc' = "ret"
    /\ raised' = <<PlainExc("JSONDecodeError")>>
    /\ response' = step.body
    /\ UNCHANGED <<identifier, namespace, status>>

\* get, polling path: the first request, sent without the operation and with
\* output JSON
GetFirst ==
    /\ pc = "call"
    /\ fn \in GetFunctions
    /\ PollingPath(args)
    /\ \E resp \in ServiceResponses(responses) :
         LET step == RequestStep(FirstArgs(identifier, namespace, args), resp)
         IN  /\ Logged(step, now)
             /\ IF step.raised /= <<>> THEN GetLeaves(step)
                ELSE IF ~step.body[1].json THEN GetDecodeFails(step)
                ELSE /\ response' = step.body
                     /\ status' = step.body
                     /\ raised' = <<>>
                     /\ pc' = AfterFirst(step.body[1])
                     /\ IF AfterFirst(step.body[1]) = "poll"
                        THEN /\ identifier' = ListKey(step.body[1])
                             /\ namespace' = "listkey"
                        ELSE UNCHANGED <<identifier, namespace>>
    /\ UNCHANGED <<fn, args, now, outcome, world>>

\* GetPoll without time.sleep(2)
GetPollNoSleep ==
    /\ pc = "poll"
    /\ now' = now
    /\ \E resp \in ServiceResponses(responses) :
         LET step == RequestStep(PollArgs(identifier, namespace, args), resp)
         IN  /\ Logged(step, now')
             /\ IF step.raised /= <<>> THEN GetLeaves(step)
                ELSE IF ~step.body[1].json THEN GetDecodeFails(step)
                ELSE /\ response' = step.body
                     /\ status' = step.body
                     /\ raised' = <<>>
                     /\ pc' = AfterPoll(step.body[1], args.output)
                     /\ UNCHANGED <<identifier, namespace>>
    /\ UNCHANGED <<fn, args, outcome, world>>

\* get, polling path: one turn of the while loop, time.sleep(2) and a poll
\* request without the search type; after the loop the result is returned
\* when the caller asked for JSON
GetPoll ==
    /\ pc = "poll"
    /\ now' = now + PollDelay
    /\ \E resp \in ServiceResponses(responses) :
         LET step == RequestStep(PollArgs(identifier, namespace, args), resp)
         IN  /\ Logged(step, now')
             /\ IF step.raised /= <<>> THEN GetLeaves(step)
                ELSE IF ~step.body[1].json THEN GetDecodeFails(step)
                ELSE /\ response' = step.body
                     /\ status' = step.body
                     /\ raised' = <<>>
                     /\ pc' = AfterPoll(step.body[1], args.output)
                     /\ UNCHANGED <<identifier, namespace>>
    /\ UNCHANGED <<fn, args, outcome, world>>

\* get, polling path: the last request, in the caller's output format
GetFinal ==
    /\ pc = "final"
    /\ \E resp \in ServiceResponses(responses) :
         LET step == RequestStep(PlainArgs(identifier, namespace, args), resp)
         IN  /\ Logged(step, now)
             /\ GetLeaves(step)
    /\ UNCHANGED <<fn, args, now, outcome, world>>

\* get, the other path: one request
GetSync ==
    /\ pc = "call"
    /\ fn \in GetFunctions
    /\ ~PollingPath(args)
    /\ \E resp \in ServiceResponses(responses) :
         LET step == RequestStep(PlainArgs(identifier, namespace, args), resp)
         IN  /\ Logged(step, now)
             /\ GetLeaves(step)
    /\ UNCHANGED <<fn, args, now, outcome, world>>

(***************************************************************************)
(* The functions built on get and request.                                 *)
(***************************************************************************)
\* GetJson with `except PubChemHTTPError` for `except NotFoundError`
GetJsonCatchAll(resp, rsd) ==
    IF rsd /= <<>>
    THEN IF rsd[1].cls \in HTTPErrorClasses THEN [exc |-> <<>>, doc |-> <<>>]
         ELSE [exc |-> rsd, doc |-> <<>>]
    ELSE IF ~resp[1].json
         THEN [exc |-> <<PlainExc("JSONDecodeError")>>, doc |-> <<>>]
         ELSE [exc |-> <<>>, doc |-> resp]

\* get_json on what get returned or raised: the exception that leaves it
\* (<<>> for none) and the decoded document (<<>> for None)
GetJson(resp, rsd) ==
    IF rsd /= <<>>
    THEN IF rsd[1].cls = "NotFoundError" THEN [exc |-> <<>>, doc |-> <<>>]
         ELSE [exc |-> rsd, doc |-> <<>>]
    ELSE IF ~resp[1].json
         THEN [exc |-> <<PlainExc("JSONDecodeError")>>, doc |-> <<>>]
         ELSE [exc |-> <<>>, doc |-> resp]

\* get_sdf on what get returned or raised
GetSdf(resp, rsd) ==
    IF rsd /= <<>>
    THEN IF rsd[1].cls = "NotFoundError" THEN Returns(NoneValue)
         ELSE Raises(rsd[1])
    ELSE Returns(BodyValue(resp[1]))

\* `if results`: None and the empty object are false
HasResults(r) == r.doc /= <<>> /\ r.doc[1].top /= ""

\* results[top] or results[top][sub]: KeyError unless the keys are there
Unwrap(doc, top, sub) ==
    IF doc.top /= top \/ (sub /= "" /\ doc.sub /= sub)
    THEN Raises(PlainExc("KeyError"))
    ELSE Returns(ListValue(doc.ids))

\* `results[top][sub] if results else []` after get_json
UnwrapResults(r, top, sub) ==
    IF r.exc /= <<>> THEN Raises(r.exc[1])
    ELSE IF ~HasResults(r) THEN Returns(ListValue(<<>>))
    ELSE Unwrap(r.doc[1], top, sub)

\* [Compound(r) for r in records]: the first record that fails raises
Compounds(records) ==
    LET built == [i \in 1..Len(records) |-> NewCompound(records[i])]
        failed == {i \in 1..Len(records) : built[i].exc /= ""}
    IN  IF failed = {} THEN Returns(ListValue(built))
        ELSE Raises(PlainExc(built[CHOOSE i \in failed :
                                     \A j \in failed : i <= j].exc))

\* get_compounds after get_json
GetCompoundsResult(r) ==
    IF r.exc /= <<>> THEN Raises(r.exc[1])
    ELSE IF ~HasResults(r) THEN Returns(ListValue(<<>>))
    ELSE IF r.doc[1].top /= "PC_Compounds" THEN Raises(PlainExc("KeyError"))
    ELSE Compounds(r.doc[1].records)

\* get_cids, get_sids, get_aids after get_json; sub is CID, SID or AID
GetIdsResult(r, sub) ==
    IF r.exc /= <<>> THEN Raises(r.exc[1])
    ELSE IF ~HasResults(r) THEN Returns(ListValue(<<>>))
    ELSE IF r.doc[1].top = "IdentifierList"
         THEN Unwrap(r.doc[1], "IdentifierList", sub)
    ELSE IF r.doc[1].top = "InformationList"
         THEN Unwrap(r.doc[1], "InformationList", "Information")
    ELSE Returns(NoneValue)

\* fn, built on get, ends: pc goes from "ret" to "done"
Ends(f, result) ==
    /\ pc = "ret"
    /\ fn = f
    /\ pc' = "done"
    /\ outcome' = result
    /\ UNCHANGED <<fn, args, identifier, namespace, status, response, raised,
                   requests, responses, times, now, world>>

Get ==
    Ends("get", IF raised /= <<>> THEN Raises(raised[1])
                ELSE Returns(BodyValue(response[1])))

GetJsonCall ==
    Ends("get_json", LET r == GetJson(response, raised) IN
                     IF r.exc /= <<>> THEN Raises(r.exc[1])
                     ELSE IF r.doc = <<>> THEN Returns(NoneValue)
                     ELSE Returns(BodyValue(r.doc[1])))

GetSdfCall == Ends("get_sdf", GetSdf(response, raised))

GetCompounds ==
    Ends("get_compounds", GetCompoundsResult(GetJson(response, raised)))

GetSubstances ==
    Ends("get_substances",
         UnwrapResults(GetJson(response, raised), "PC_Substances", ""))

GetAssays ==
    Ends("get_assays",
         UnwrapResults(GetJson(response, raised), "PC_AssayContainer", ""))

GetProperties ==
    Ends("get_properties",
         UnwrapResults(GetJson(response, raised), "PropertyTable", "Properties"))

GetSynonyms ==
    Ends("get_synonyms",
         UnwrapResults(GetJson(response, raised), "InformationList",
                       "Information"))

GetCids == Ends("get_cids", GetIdsResult(GetJson(response, raised), "CID"))

GetSids == Ends("get_sids", GetIdsResult(GetJson(response, raised), "SID"))

GetAids == Ends("get_aids", GetIdsResult(GetJson(response, raised), "AID"))

\* get_all_sources: json.loads(get(...))["InformationList"]["SourceName"]
GetAllSources ==
    Ends("get_all_sources",
         IF raised /= <<>> THEN Raises(raised[1])
         ELSE IF ~response[1].json THEN Raises(PlainExc("JSONDecodeError"))
         ELSE Unwrap(response[1], "InformationList", "SourceName"))

\* fn calls request itself: one request; fn raises what request raises, and
\* otherwise ends with `result`, made of the body that .read() returns
Direct(f, step, result) ==
    /\ pc = "call"
    /\ fn = f
    /\ Logged(step, now)
    /\ outcome' = IF step.raised /= <<>> THEN Raises(step.raised[1]) ELSE result
    /\ pc' = "done"
    /\ UNCHANGED <<fn, args, identifier, namespace, status, response, raised,
                   now, world>>

\* request called by the caller: the response is returned as it is
Request ==
    \E resp \in ServiceResponses(responses) :
      LET step == RequestStep(args, resp)
      IN  Direct("request", step,
                 IF step.body = <<>> THEN NoOutcome
                 ELSE Returns(BodyValue(step.body[1])))

\* Compound.from_cid: json.loads(...)["PC_Compounds"][0], then Compound(record)
FromCidResult(b) ==
    IF ~b.json THEN Raises(PlainExc("JSONDecodeError"))
    ELSE IF b.top /= "PC_Compounds" THEN Raises(PlainExc("KeyError"))
    ELSE IF b.records = <<>> THEN Raises(PlainExc("IndexError"))
    ELSE LET c == NewCompound(b.records[1]) IN
         IF c.exc /= "" THEN Raises(PlainExc(c.exc)) ELSE Returns(EntityValue(c))

FromCid ==
    \E resp \in ServiceResponses(responses) :
      LET step == RequestStep(args, resp)
      IN  Direct("from_cid", step,
                 IF step.body = <<>> THEN NoOutcome
                 ELSE FromCidResult(step.body[1]))

\* Substance.from_sid: json.loads(...)["PC_Substances"][0], then Substance(record)
FromSidResult(b) ==
    IF ~b.json THEN Raises(PlainExc("JSONDecodeError"))
    ELSE IF b.top /= "PC_Substances" THEN Raises(PlainExc("KeyError"))
    ELSE IF b.ids = <<>> THEN Raises(PlainExc("IndexError"))
    ELSE Returns(EntityValue([record |-> b.ids[1]]))

FromSid ==
    \E resp \in ServiceResponses(responses) :
      LET step == RequestStep(args, resp)
      IN  Direct("from_sid", step,
                 IF step.body = <<>> THEN NoOutcome
                 ELSE FromSidResult(step.body[1]))

(***************************************************************************)
(* The calls.                                                              *)
(***************************************************************************)
Identifiers ==
    { IdNone, IdStr(<<>>), IdList(<<>>), IdInt(0),
      IdInt(7), IdStr(<<"a", "/", "b">>), IdList(<<1, 2>>) }

Namespaces == {"cid", "name", "formula", "listkey", "sourceid"}

Domains == {"compound", "substance", "sources"}

Operations == {None, "cids"}

Outputs == {"JSON", "SDF"}

SearchTypes == {None, "xref", "substructure"}

\* the arguments request or get receives from each function, for the
\* arguments the caller may pass
CallArgs(f) ==
    CASE f = "request" ->
           { Args(i, n, d, o, out, s) : i \in Identifiers, n \in Namespaces,
               d \in Domains, o \in Operations, out \in Outputs,
               s \in SearchTypes }
      [] f = "get" ->
           { Args(i, n, "compound", o, out, s) : i \in Identifiers,
               n \in {"cid", "name", "formula", "listkey"}, o \in Operations,
               out \in Outputs, s \in SearchTypes }
      [] f = "get_json" ->
           { Args(i, n, "compound", o, "JSON", s) : i \in Identifiers,
               n \in {"cid", "formula"}, o \in Operations, s \in SearchTypes }
      [] f = "get_sdf" ->
           { Args(i, n, "compound", None, "SDF", s) : i \in Identifiers,
               n \in {"cid", "formula"}, s \in SearchTypes }
      [] f = "get_compounds" ->
           { Args(i, n, "compound", None, "JSON", s) : i \in Identifiers,
               n \in {"cid", "formula"}, s \in SearchTypes }
      [] f = "get_substances" ->
           { Args(i, n, "substance", None, "JSON", None) : i \in Identifiers,
               n \in {"sid", "sourceid"} }
      [] f = "get_assays" ->
           { Args(i, n, "assay", "description", "JSON", None) :
               i \in Identifiers, n \in {"aid"} }
      [] f = "get_properties" ->
           { Args(i, n, "compound", "property/MolecularWeight", "JSON", s) :
               i \in Identifiers, n \in {"cid", "formula"}, s \in SearchTypes }
      [] f = "get_synonyms" ->
           { Args(i, n, "compound", "synonyms", "JSON", s) : i \in Identifiers,
               n \in {"cid", "formula"}, s \in SearchTypes }
      [] f = "get_cids" ->
           { Args(i, n, "compound", "cids", "JSON", s) : i \in Identifiers,
               n \in {"name", "formula"}, s \in SearchTypes }
      [] f = "get_sids" ->
           { Args(i, n, "compound", "sids", "JSON", s) : i \in Identifiers,
               n \in {"cid", "formula"}, s \in SearchTypes }
      [] f = "get_aids" ->
           { Args(i, n, "compound", "aids", "JSON", s) : i \in Identifiers,
               n \in {"cid", "formula"}, s \in SearchTypes }
      [] f = "get_all_sources" ->
           { Args(IdStr(d), None, "sources", None, "JSON", None) :
               d \in { <<>>, <<"substance">> } }
      [] f = "from_cid" ->
           { Args(i, "cid", "compound", None, "JSON", None) : i \in Identifiers }
      [] OTHER ->
           { Args(i, "sid", "substance", None, "JSON", None) : i \in Identifiers }

\* the functions a call of Spec is made to; download has SpecDownload
Functions ==
    (GetFunctions \cup {"request", "from_cid", "from_sid"}) \ {"download"}

Init ==
    /\ fn \in Functions
    /\ args \in CallArgs(fn)
    /\ pc = "call"
    /\ identifier = args.identifier
    /\ namespace = args.namespace
    /\ status = <<>>
    /\ response = <<>>
    /\ raised = <<>>
    /\ requests = <<>>
    /\ responses = <<>>
    /\ times = <<>>
    /\ now = 0
    /\ outcome = NoOutcome
    /\ self = NoEntity
    /\ threads = NoThreads
    /\ file = NoFile
    /\ log = NoLog

Next ==
    \/ GetFirst
    \/ GetPoll
    \/ GetFinal
    \/ GetSync
    \/ Get
    \/ GetJsonCall
    \/ GetSdfCall
    \/ GetCompounds
    \/ GetSubstances
    \/ GetAssays
    \/ GetProperties
    \/ GetSynonyms
    \/ GetCids
    \/ GetSids
    \/ GetAids
    \/ GetAllSources
    \/ Request
    \/ FromCid
    \/ FromSid

Spec == Init /\ [][Next]_vars

\* get on its own, called on either path
InitPoll ==
    /\ fn = "get"
    /\ args \in { Args(IdInt(7), n, "compound", None, out, None) :
                    n \in {"cid", "formula"}, out \in Outputs }
    /\ pc = "call"
    /\ identifier = args.identifier
    /\ namespace = args.namespace
    /\ status = <<>>
    /\ response = <<>>
    /\ raised = <<>>
    /\ requests = <<>>
    /\ responses = <<>>
    /\ times = <<>>
    /\ now = 0
    /\ outcome = NoOutcome
    /\ self = NoEntity
    /\ threads = NoThreads
    /\ file = NoFile
    /\ log = NoLog

NextPoll ==
    \/ GetFirst
    \/ GetPoll
    \/ GetFinal
    \/ GetSync
    \/ Get

\* the call runs on: request returns when the service has answered, sleep
\* ends, and the code between them takes its steps
SpecPoll == InitPoll /\ [][NextPoll]_vars /\ WF_vars(NextPoll)

TypeOK ==
    /\ pc \in {"call", "poll", "final", "ret", "done"}
    /\ Len(requests) = Len(responses)
    /\ Len(requests) = Len(times)

(***************************************************************************)
(* The classifier on its own: every status code with every fault body.     *)
(***************************************************************************)
\* the fault bodies: the malformed ones, and a Fault object with each
\* combination of Code, Message and Details
AllFaults ==
    { FaultBody(sh, <<>>, <<>>, <<>>) :
        sh \in {"empty", "text", "array", "object", "scalar"} }
    \cup { FaultBody("fault", c, m, d) :
             c \in { <<>>, <<"PUGREST.NotFound">> },
             m \in { <<>>, <<"m">> },
             d \in { <<>>, << <<"d">> >> } }

\* create_http_error is about to be called on the HTTPError in args
InitClassify ==
    /\ fn = "create_http_error"
    /\ args \in ErrorResponses(StatusCodes, AllFaults)
    /\ pc = "call"
    /\ identifier = IdNone
    /\ namespace = None
    /\ status = <<>>
    /\ response = <<>>
    /\ raised = <<>>
    /\ requests = <<>>
    /\ responses = <<>>
    /\ times = <<>>
    /\ now = 0
    /\ outcome = NoOutcome
    /\ self = NoEntity
    /\ threads = NoThreads
    /\ file = NoFile
    /\ log = NoLog

\* create_http_error returns the error, or an exception escapes it
CreateHttpError ==
    /\ pc = "call"
    /\ fn = "create_http_error"
    /\ pc' = "done"
    /\ outcome' = LET r == create_http_error(args) IN
                  IF r.threw THEN Raises(r.exc) ELSE Returns(EntityValue(r.exc))
    /\ UNCHANGED <<fn, args, identifier, namespace, status, response, raised,
                   requests, responses, times, now, world>>

NextClassify == CreateHttpError

SpecClassify == InitClassify /\ [][NextClassify]_vars

(***************************************************************************)
(* Compound(record) and compound.record = record, on their own.            *)
(***************************************************************************)
\* the atom arrays of a record: two atoms, three ids for two elements, one
\* atom, one id listed twice
AtomArrays ==
    { [aid |-> <<1, 2>>, element |-> <<6, 8>>],
      [aid |-> <<1, 2, 3>>, element |-> <<6, 8>>],
      [aid |-> <<1>>, element |-> <<6>>],
      [aid |-> <<1, 1>>, element |-> <<6, 8>>] }

\* the charge lists: none, a charge on atom 1, a charge on an unknown atom
Charges ==
    { <<>>, <<[aid |-> 1, value |-> -1]>>, <<[aid |-> 9, value |-> 1]>> }

\* the z arrays of a conformer: no z key, an empty z, a z for each of two
\* atoms, a z too short
ZArrays ==
    { [has |-> FALSE, v |-> <<>>], [has |-> TRUE, v |-> <<>>],
      [has |-> TRUE, v |-> <<50, 60>>], [has |-> TRUE, v |-> <<50>>] }

\* the style blocks: none, a style for the pair (2, 1), a style for a pair
\* that is no bond
Styles ==
    { <<>>,
      <<[aid1 |-> <<2>>, aid2 |-> <<1>>, annotation |-> <<5>>]>>,
      <<[aid1 |-> <<1>>, aid2 |-> <<3>>, annotation |-> <<6>>]>> }

\* the coordinate blocks
CoordBlocks ==
    { [aid |-> a, x |-> x, y |-> y, z |-> z.v, hasz |-> z.has, style |-> st] :
        a \in { <<1, 2>>, <<2, 1>>, <<1, 3>>, <<1, 1>>, <<1>> },
        x \in { <<10, 20>>, <<10>> },
        y \in { <<30, 40>>, <<30>> },
        z \in ZArrays,
        st \in Styles }

\* the bond blocks: one bond, the pair listed twice, no order for the bond,
\* two bonds
BondBlocks ==
    { [aid1 |-> <<1>>, aid2 |-> <<2>>, order |-> <<1>>],
      [aid1 |-> <<1, 2>>, aid2 |-> <<2, 1>>, order |-> <<1, 2>>],
      [aid1 |-> <<1>>, aid2 |-> <<2>>, order |-> <<>>],
      [aid1 |-> <<1, 1>>, aid2 |-> <<2, 3>>, order |-> <<1, 2>>] }

\* the records a Compound is built from
Records ==
    { [aid |-> at.aid, element |-> at.element, charge |-> ch, coords |-> co,
       bonds |-> bo, cid |-> <<7>>] :
        at \in AtomArrays,
        ch \in Charges,
        co \in { <<>> } \cup { <<c>> : c \in CoordBlocks },
        bo \in { <<>> } \cup { <<b>> : b \in BondBlocks } }

\* the records assigned to a Compound that exists: those without
\* coordinates and charges
AssignedRecords == { r \in Records : r.coords = <<>> /\ r.charge = <<>> }

\* the Compound as the object holds it
CompoundObject(c) ==
    [cls |-> "Compound", record |-> c.record, atoms |-> c.atoms,
     bonds |-> c.bonds]

\* what the constructor or the setter ends with
Built(c) == IF c.exc = "" THEN Returns(NoneValue) ELSE Raises(PlainExc(c.exc))

\* Compound(record) is about to be called on the record in args
InitCompound ==
    /\ fn = "Compound"
    /\ args \in Records
    /\ pc = "call"
    /\ identifier = IdNone
    /\ namespace = None
    /\ status = <<>>
    /\ response = <<>>
    /\ raised = <<>>
    /\ requests = <<>>
    /\ responses = <<>>
    /\ times = <<>>
    /\ now = 0
    /\ outcome = NoOutcome
    /\ self = NoEntity
    /\ threads = NoThreads
    /\ file = NoFile
    /\ log = NoLog

\* Compound.__init__
Construct ==
    /\ pc = "call"
    /\ fn = "Compound"
    /\ self' = CompoundObject(NewCompound(args))
    /\ outcome' = Built(NewCompound(args))
    /\ pc' = "made"
    /\ UNCHANGED <<fn, args, identifier, namespace, status, response, raised,
                   requests, responses, times, now, threads, file, log>>

\* the record setter on the Compound just constructed; args becomes the
\* record assigned
AssignRecord ==
    /\ pc = "made"
    /\ fn = "Compound"
    /\ outcome.kind = "return"
    /\ \E r \in AssignedRecords :
         /\ args' = r
         /\ self' = CompoundObject(SetRecord(self, r))
         /\ outcome' = Built(SetRecord(self, r))
    /\ pc' = "done"
    /\ UNCHANGED <<fn, identifier, namespace, status, response, raised,
                   requests, responses, times, now, threads, file, log>>

NextCompound == Construct \/ AssignRecord

SpecCompound == InitCompound /\ [][NextCompound]_vars

(***************************************************************************)
(* download.  file is what the path holds, <<>> when no file is there and  *)
(* <<bytes>> otherwise; log keeps what it held when download was called.   *)
(***************************************************************************)
\* what the file holds before the call
OldBytes == Body(FALSE, "old", "", <<>>, <<>>, <<>>)

\* the arguments of download: those it hands to get, and overwrite
DownloadArgs ==
    { [identifier |-> i, namespace |-> n, domain |-> "compound",
       operation |-> None, output |-> out, searchtype |-> None,
       overwrite |-> w] :
        i \in {IdNone, IdInt(7)}, n \in {"cid", "formula"},
        out \in Outputs, w \in BOOLEAN }

InitDownload ==
    /\ fn = "download"
    /\ args \in DownloadArgs
    /\ pc = "call"
    /\ identifier = args.identifier
    /\ namespace = args.namespace
    /\ status = <<>>
    /\ response = <<>>
    /\ raised = <<>>
    /\ requests = <<>>
    /\ responses = <<>>
    /\ times = <<>>
    /\ now = 0
    /\ outcome = NoOutcome
    /\ self = NoEntity
    /\ threads = NoThreads
    /\ file \in {NoFile, <<OldBytes>>}
    /\ log = file

\* Download with the test of the path made before the file is written only
\* when overwrite is set
DownloadAlwaysWrites ==
    /\ pc = "ret"
    /\ fn = "download"
    /\ pc' = "done"
    /\ IF raised /= <<>>
       THEN /\ outcome' = Raises(raised[1])
            /\ UNCHANGED file
       ELSE /\ outcome' = Returns(NoneValue)
            /\ file' = response
    /\ UNCHANGED <<fn, args, identifier, namespace, status, response, raised,
                   requests, responses, times, now, self, threads, log>>

\* download after get: the exception of get leaves it; otherwise OSError
\* when the file is there and overwrite is not set; otherwise the response
\* is written to the path
Download ==
    /\ pc = "ret"
    /\ fn = "download"
    /\ pc' = "done"
    /\ IF raised /= <<>>
       THEN /\ outcome' = Raises(raised[1])
            /\ UNCHANGED file
       ELSE IF ~args.overwrite /\ file /= NoFile
       THEN /\ outcome' = Raises(PlainExc("OSError"))
            /\ UNCHANGED file
       ELSE /\ outcome' = Returns(NoneValue)
            /\ file' = response
    /\ UNCHANGED <<fn, args, identifier, namespace, status, response, raised,
                   requests, responses, times, now, self, threads, log>>

NextDownload ==
    \/ GetFirst
    \/ GetPoll
    \/ GetFinal
    \/ GetSync
    \/ Download

SpecDownload == InitDownload /\ [][NextDownload]_vars

(***************************************************************************)
(* _parse_prop.  A dict is the set of its items, <<key, value>>; the value *)
(* dict of an entry is the sequence of its items in key order.             *)
(***************************************************************************)
\* the entries of a property list
MaxProps == 3

\* the urn of an entry with a label and, when n is not <<>>, a name
Urn(l, n) == { <<"label", l>> } \cup { <<"name", n[i]>> : i \in DOMAIN n }

\* a scalar payload
ScalarValue(v) == Value("scalar", <<>>, <<v>>)

\* Matches with any() for all()
MatchesAny(search, i) == \E item \in search : item \in i.urn

\* all(item in i["urn"].items() for item in search.items())
Matches(search, i) == \A item \in search : item \in i.urn

\* props[0]["value"][list(props[0]["value"].keys())[0]]
FirstValue(i) == i.value[1][2]

\* _parse_prop(search, proplist)
ParsePropResult(search, proplist) ==
    LET props == SelectSeq(proplist, LAMBDA i : Matches(search, i))
    IN  IF Len(props) > 0 THEN Returns(ScalarValue(FirstValue(props[1])))
        ELSE Returns(NoneValue)

\* the entries of the records: a urn and a value dict of one or two items
PropEntries ==
    { [urn |-> Urn("SMILES", <<n>>), value |-> << <<"sval", v>> >>] :
        n \in {"Connectivity", "Absolute"}, v \in {1, 2} }
      \cup { [urn |-> Urn("SMILES", <<>>), value |-> << <<"sval", 3>> >>],
             [urn |-> Urn("Mass", <<"Absolute">>),
              value |-> << <<"fval", 4>>, <<"sval", 5>> >>] }

\* the property lists of at most MaxProps entries
PropLists ==
    UNION { [1..n -> PropEntries] : n \in 0..MaxProps }

\* the filters of the property accessors, the empty one and one of a label
\* no entry has
Searches ==
    { {}, Urn("SMILES", <<>>), Urn("SMILES", <<"Connectivity">>),
      Urn("SMILES", <<"Absolute">>), { <<"name", "Absolute">> },
      Urn("Log P", <<>>) }

InitProp ==
    /\ fn = "_parse_prop"
    /\ args \in [search : Searches, proplist : PropLists]
    /\ pc = "call"
    /\ identifier = IdNone
    /\ namespace = None
    /\ status = <<>>
    /\ response = <<>>
    /\ raised = <<>>
    /\ requests = <<>>
    /\ responses = <<>>
    /\ times = <<>>
    /\ now = 0
    /\ outcome = NoOutcome
    /\ self = NoEntity
    /\ threads = NoThreads
    /\ file = NoFile
    /\ log = NoLog

ParseProp ==
    /\ fn = "_parse_prop"
    /\ pc = "call"
    /\ pc' = "done"
    /\ outcome' = ParsePropResult(args.search, args.proplist)
    /\ UNCHANGED <<fn, args, identifier, namespace, status, response, raised,
                   requests, responses, times, now, world>>

NextProp == ParseProp

SpecProp == InitProp /\ [][NextProp]_vars

(***************************************************************************)
(* Atom.element.                                                           *)
(***************************************************************************)
\* the keys of ELEMENTS: the 118 elements and the special atom types
ElementNumbers == (1..118) \cup (252..255)

\* ELEMENTS[number], for the numbers the atoms below have
ELEMENTS(number) ==
    CASE number = 1 -> <<"H">>
      [] number = 6 -> <<"C">>
      [] number = 8 -> <<"O">>
      [] number = 118 -> <<"O", "g">>
      [] number = 252 -> <<"L", "p">>
      [] number = 255 -> <<"*">>

\* a returned string
StrValue(s) == Value("str", <<>>, s)

\* ELEMENTS.get(self.number, str(self.number))
Element(atom) ==
    IF atom.number \in ElementNumbers THEN StrValue(ELEMENTS(atom.number))
    ELSE StrValue(IntToStr(atom.number))

\* the atoms: known elements, special atom types and numbers of no element
Atoms ==
    { [Atom(aid, number) EXCEPT !.charge = c] :
        aid \in 1..3, number \in {1, 6, 8, 118, 252, 255, 0, 119, 251, 999},
        c \in {0, 1} }

InitAtom ==
    /\ fn = "Atom.element"
    /\ args \in Atoms
    /\ pc = "call"
    /\ identifier = IdNone
    /\ namespace = None
    /\ status = <<>>
    /\ response = <<>>
    /\ raised = <<>>
    /\ requests = <<>>
    /\ responses = <<>>
    /\ times = <<>>
    /\ now = 0
    /\ outcome = NoOutcome
    /\ self = NoEntity
    /\ threads = NoThreads
    /\ file = NoFile
    /\ log = NoLog

\* atom.element
AtomElement ==
    /\ fn = "Atom.element"
    /\ pc = "call"
    /\ pc' = "done"
    /\ outcome' = Returns(Element(args))
    /\ UNCHANGED <<fn, args, identifier, namespace, status, response, raised,
                   requests, responses, times, now, world>>

NextAtom == AtomElement

SpecAtom == InitAtom /\ [][NextAtom]_vars

(***************************************************************************)
(* Compound.cactvs_fingerprint.  The raw fingerprint is the hex text of a  *)
(* 4-byte length, the fingerprint bits and 7 padding bits; the model keeps *)
(* the prefix, the padding and the format width of the code and scales the *)
(* hex digits after the prefix from 222 to HexDigits, and with them the    *)
(* fingerprint bits from 881 to 4 * HexDigits - 7.                         *)
(***************************************************************************)
\* the hex digits after the length prefix
HexDigits == 6

\* the bits of the fingerprint: 881 for 222 hex digits
FingerprintBits == 4 * HexDigits - 7

\* the value of a hex digit
HexValue(c) ==
    CASE c = "0" -> 0 [] c = "1" -> 1 [] c = "7" -> 7 [] c = "8" -> 8
      [] OTHER -> 15

RECURSIVE HexToInt(_)
\* int(s, 16)
HexToInt(s) ==
    IF s = <<>> THEN 0
    ELSE 16 * HexToInt(SubSeq(s, 1, Len(s) - 1)) + HexValue(s[Len(s)])

RECURSIVE Bin(_)
\* format(n, "b"): the binary digits of n, no leading zero
Bin(n) == IF n < 2 THEN <<Digit(n)>> ELSE Bin(n \div 2) \o <<Digit(n % 2)>>

\* ZFill that pads nothing
ZFillNone(s, width) == s

\* s.zfill(width), also the zero padding of a format width
ZFill(s, width) ==
    IF Len(s) >= width THEN s ELSE [i \in 1..(width - Len(s)) |-> "0"] \o s

\* s[:-n]
DropLast(s, n) == IF Len(s) <= n THEN <<>> ELSE SubSeq(s, 1, Len(s) - n)

\* f"{int(fingerprint[8:], 16):020b}"[:-7].zfill(881)
CactvsFingerprint(fingerprint) ==
    ZFill(DropLast(ZFill(Bin(HexToInt(SubSeq(fingerprint, 9, Len(fingerprint)))),
                         20), 7),
          FingerprintBits)

\* the raw fingerprints: the length prefix and HexDigits hex digits
Fingerprints ==
    { <<"0", "0", "0", "0", "0", "3", "7", "1">> \o rest :
        rest \in [1..HexDigits -> {"0", "1", "7", "8", "F"}] }

InitFingerprint ==
    /\ fn = "cactvs_fingerprint"
    /\ args \in Fingerprints
    /\ pc = "call"
    /\ identifier = IdNone
    /\ namespace = None
    /\ status = <<>>
    /\ response = <<>>
    /\ raised = <<>>
    /\ requests = <<>>
    /\ responses = <<>>
    /\ times = <<>>
    /\ now = 0
    /\ outcome = NoOutcome
    /\ self = NoEntity
    /\ threads = NoThreads
    /\ file = NoFile
    /\ log = NoLog

\* compound.cactvs_fingerprint
GetFingerprint ==
    /\ fn = "cactvs_fingerprint"
    /\ pc = "call"
    /\ pc' = "done"
    /\ outcome' = Returns(StrValue(CactvsFingerprint(args)))
    /\ UNCHANGED <<fn, args, identifier, namespace, status, response, raised,
                   requests, responses, times, now, world>>

NextFingerprint == GetFingerprint

SpecFingerprint == InitFingerprint /\ [][NextFingerprint]_vars

(***************************************************************************)
(* Entities: the memoized properties and to_dict.                          *)
(*                                                                         *)
(* The entity holds its class, its id (the cid of a Compound, <<>> when it *)
(* has none; the sid of a Substance), std (the standardized cid of a       *)
(* Substance, <<>> when it has none) and cache, the attributes that        *)
(* fget_memoized has set, by property name.                                *)
(***************************************************************************)
\* the calls the threads make on the entity
MaxCalls == 3

RECURSIVE Calls(_, _)
\* the calls the threads 1..n have made
Calls(ths, n) == IF n = 0 THEN 0 ELSE ths[n].calls + Calls(ths, n - 1)

\* properties of each class, in the order of the class body
Properties(cls) ==
    IF cls = "Compound"
    THEN <<"record", "cid", "atoms", "synonyms", "sids", "aids",
           "canonical_smiles", "isomeric_smiles", "smiles">>
    ELSE <<"record", "sid", "synonyms", "standardized_cid",
           "standardized_compound", "deposited_compound", "cids", "aids">>

\* the properties declared with @memoized_property
Memoized(cls) ==
    IF cls = "Compound" THEN {"synonyms", "sids", "aids"}
    ELSE {"standardized_compound", "cids", "aids"}

\* Skip without synonyms (Compound) and cids (Substance)
SkipFewer(cls) ==
    IF cls = "Compound"
    THEN {"record", "aids", "sids", "canonical_smiles", "isomeric_smiles"}
    ELSE {"record", "deposited_compound", "standardized_compound", "aids"}

\* the skip set of to_dict
Skip(cls) ==
    IF cls = "Compound"
    THEN {"record", "aids", "sids", "synonyms", "canonical_smiles",
          "isomeric_smiles"}
    ELSE {"record", "deposited_compound", "standardized_compound", "cids",
          "aids"}

\* the properties to_dict reads; <<>> is no list (None or empty)
ToDictProperties(cls, properties) ==
    IF properties = <<>>
    THEN SelectSeq(Properties(cls), LAMBDA p : p \notin Skip(cls))
    ELSE properties

\* the property lists the caller passes to to_dict
ToDictArguments(cls) ==
    IF cls = "Compound" THEN { <<>>, <<"cid", "synonyms">> }
    ELSE { <<>>, <<"sid", "cids">> }

\* the request behind a memoized property: <<>> when fget returns None
\* without a request, <<arguments>> otherwise
FetchArgs(e, p) ==
    IF e.cls = "Compound"
    THEN IF e.id = <<>> THEN <<>>
         ELSE <<Args(IdInt(e.id[1]), "cid", "compound", p, "JSON", None)>>
    ELSE IF p = "standardized_compound"
         THEN IF e.std = <<>> THEN <<>>
              ELSE <<Args(IdInt(e.std[1]), "cid", "compound", None, "JSON",
                          None)>>
         ELSE <<Args(IdInt(e.id[1]), "sid", "substance", p, "JSON", None)>>

\* what fget makes of the step of its request: Compound.from_cid for
\* standardized_compound, get_json and the unwrapping of its result otherwise
FgetResult(p, step) ==
    IF p = "standardized_compound"
    THEN IF step.raised /= <<>> THEN Raises(step.raised[1])
         ELSE FromCidResult(step.body[1])
    ELSE UnwrapResults(GetJson(step.body, step.raised), "InformationList",
                       "Information")

\* what the service answers to the request of an entity
EntityResponses ==
    OkResponses({ Body(TRUE, "InformationList", "Information", <<>>, <<14>>, <<>>),
                  Body(TRUE, "PC_Compounds", "", <<GoodRecord>>, <<>>, <<>>) })
      \cup ErrorResponses({404, 503}, {FaultBody("empty", <<>>, <<>>, <<>>)})

\* the entities
Entities ==
    { [cls |-> "Compound", id |-> <<7>>, std |-> <<>>, cache |-> <<>>],
      [cls |-> "Compound", id |-> <<>>, std |-> <<>>, cache |-> <<>>],
      [cls |-> "Substance", id |-> <<11>>, std |-> <<7>>, cache |-> <<>>],
      [cls |-> "Substance", id |-> <<11>>, std |-> <<>>, cache |-> <<>>] }

\* a thread that is in no call: its position, the call it is in (getattr or
\* to_dict) and its argument, the properties still to read and those read,
\* the value in hand, whether the call has sent a request, the number of
\* calls ended when this one began, the attributes set when it began, and
\* the number of calls the thread has made
IdleThread ==
    [pc |-> "idle", op |-> "", args |-> <<>>, todo |-> <<>>, keys |-> <<>>,
     value |-> NoneValue, fetched |-> FALSE, started |-> 0, before |-> {},
     calls |-> 0]

\* the entity exists and n threads hold it; f is "entity" when the threads
\* make any call on it, and the name of a memoized property when they only
\* read that property
InitEntity(n, f) ==
    /\ fn = f
    /\ args = None
    /\ pc = "call"
    /\ identifier = IdNone
    /\ namespace = None
    /\ status = <<>>
    /\ response = <<>>
    /\ raised = <<>>
    /\ requests = <<>>
    /\ responses = <<>>
    /\ times = <<>>
    /\ now = 0
    /\ outcome = NoOutcome
    /\ self \in Entities
    /\ f \in {"entity"} \cup Memoized(self.cls)
    /\ threads = [t \in 1..n |-> IdleThread]
    /\ file = NoFile
    /\ log = NoLog

\* thread t begins a call
Begin(t, op, properties, todo) ==
    /\ threads[t].pc = "idle"
    /\ Calls(threads, Len(threads)) < MaxCalls
    /\ threads' = [threads EXCEPT ![t] =
                     [pc |-> "next", op |-> op, args |-> properties,
                      todo |-> todo, keys |-> <<>>, value |-> NoneValue,
                      fetched |-> FALSE, started |-> Len(log),
                      before |-> DOMAIN self.cache, calls |-> @.calls + 1]]
    /\ UNCHANGED <<fn, args, pc, identifier, namespace, status, response,
                   raised, requests, responses, times, now, outcome, self,
                   file, log>>

\* the call of thread t, in the state th, ends
LogEntry(t, th, kind, exc, after) ==
    [thread |-> t, op |-> th.op, args |-> th.args, kind |-> kind, exc |-> exc,
     keys |-> th.keys, value |-> th.value, fetched |-> th.fetched,
     started |-> th.started, before |-> th.before, after |-> after]

\* thread t reads a memoized property: entity.p
GetProperty(t) ==
    \E p \in Memoized(self.cls) :
      /\ fn \in {"entity", p}
      /\ Begin(t, "getattr", <<p>>, <<p>>)

\* thread t calls entity.to_dict(properties)
ToDict(t) ==
    \E ps \in ToDictArguments(self.cls) :
      /\ fn = "entity"
      /\ Begin(t, "to_dict", ps, ToDictProperties(self.cls, ps))

\* to_dict reads a property that is not memoized: no request, no attribute
ReadPlain(t) ==
    /\ threads[t].pc = "next"
    /\ threads[t].todo /= <<>>
    /\ Head(threads[t].todo) \notin Memoized(self.cls)
    /\ threads' = [threads EXCEPT ![t].keys = Append(@, Head(threads[t].todo)),
                                  ![t].todo = Tail(@)]
    /\ UNCHANGED <<fn, args, pc, identifier, namespace, status, response,
                   raised, requests, responses, times, now, outcome, self,
                   file, log>>

\* the call returns
Return(t) ==
    /\ threads[t].pc = "next"
    /\ threads[t].todo = <<>>
    /\ log' = Append(log, LogEntry(t, threads[t], "return", PlainExc(""),
                                   DOMAIN self.cache))
    /\ threads' = [threads EXCEPT ![t].pc = "idle"]
    /\ UNCHANGED <<fn, args, pc, identifier, namespace, status, response,
                   raised, requests, responses, times, now, outcome, self,
                   file>>

\* HasAttr that finds no attribute
HasAttrNever(t) ==
    /\ threads[t].pc = "next"
    /\ threads[t].todo /= <<>>
    /\ Head(threads[t].todo) \in Memoized(self.cls)
    /\ threads' = [threads EXCEPT ![t].pc = "fget"]
    /\ UNCHANGED <<fn, args, pc, identifier, namespace, status, response,
                   raised, requests, responses, times, now, outcome, self,
                   file, log>>

\* fget_memoized: `if not hasattr(self, attr_name)`
HasAttr(t) ==
    /\ threads[t].pc = "next"
    /\ threads[t].todo /= <<>>
    /\ Head(threads[t].todo) \in Memoized(self.cls)
    /\ threads' = [threads EXCEPT ![t].pc =
                     IF Head(threads[t].todo) \in DOMAIN self.cache
                     THEN "getattr" ELSE "fget"]
    /\ UNCHANGED <<fn, args, pc, identifier, namespace, status, response,
                   raised, requests, responses, times, now, outcome, self,
                   file, log>>

\* Fget that sets the attribute to None when the fetch raises
FgetCachesNone(t) ==
    /\ threads[t].pc = "fget"
    /\ LET p == Head(threads[t].todo)
           a == FetchArgs(self, p)
       IN  IF a = <<>>
           THEN /\ threads' = [threads EXCEPT ![t].pc = "setattr",
                                              ![t].value = NoneValue]
                /\ UNCHANGED <<requests, responses, times, log, self>>
           ELSE \E resp \in EntityResponses :
                  LET step == RequestStep(a[1], resp)
                      res == FgetResult(p, step)
                      th == [threads[t] EXCEPT !.fetched = TRUE]
                  IN  /\ Logged(step, now)
                      /\ IF res.kind = "raise"
                         THEN /\ self' = [self EXCEPT !.cache =
                                            Put(@, p, NoneValue)]
                              /\ log' = Append(log, LogEntry(t, th, "raise",
                                                 res.exc, DOMAIN self'.cache))
                              /\ threads' = [threads EXCEPT ![t] =
                                               [th EXCEPT !.pc = "idle"]]
                         ELSE /\ threads' = [threads EXCEPT ![t] =
                                               [th EXCEPT !.pc = "setattr",
                                                          !.value = res.value]]
                              /\ UNCHANGED <<log, self>>
    /\ UNCHANGED <<fn, args, pc, identifier, namespace, status, response,
                   raised, now, outcome, file>>

\* fget_memoized: fget(self), which returns None without a request or sends
\* one request; an exception ends the call
Fget(t) ==
    /\ threads[t].pc = "fget"
    /\ LET p == Head(threads[t].todo)
           a == FetchArgs(self, p)
       IN  IF a = <<>>
           THEN /\ threads' = [threads EXCEPT ![t].pc = "setattr",
                                              ![t].value = NoneValue]
                /\ UNCHANGED <<requests, responses, times, log>>
           ELSE \E resp \in EntityResponses :
                  LET step == RequestStep(a[1], resp)
                      res == FgetResult(p, step)
                      th == [threads[t] EXCEPT !.fetched = TRUE]
                  IN  /\ Logged(step, now)
                      /\ IF res.kind = "raise"
                         THEN /\ log' = Append(log, LogEntry(t, th, "raise",
                                                 res.exc, DOMAIN self.cache))
                              /\ threads' = [threads EXCEPT ![t] =
                                               [th EXCEPT !.pc = "idle"]]
                         ELSE /\ threads' = [threads EXCEPT ![t] =
                                               [th EXCEPT !.pc = "setattr",
                                                          !.value = res.value]]
                              /\ UNCHANGED log
    /\ UNCHANGED <<fn, args, pc, identifier, namespace, status, response,
                   raised, now, outcome, self, file>>

\* fget_memoized: setattr(self, attr_name, value)
SetAttr(t) ==
    /\ threads[t].pc = "setattr"
    /\ self' = [self EXCEPT !.cache = Put(@, Head(threads[t].todo),
                                          threads[t].value)]
    /\ threads' = [threads EXCEPT ![t].pc = "getattr"]
    /\ UNCHANGED <<fn, args, pc, identifier, namespace, status, response,
                   raised, requests, responses, times, now, outcome, file,
                   log>>

\* GetAttr that returns the value the call has in hand
GetAttrInHand(t) ==
    /\ threads[t].pc = "getattr"
    /\ threads' = [threads EXCEPT ![t].pc = "next",
                                  ![t].keys = Append(@, Head(threads[t].todo)),
                                  ![t].todo = Tail(@)]
    /\ UNCHANGED <<fn, args, pc, identifier, namespace, status, response,
                   raised, requests, responses, times, now, outcome, self,
                   file, log>>

\* fget_memoized: `return getattr(self, attr_name)`
GetAttr(t) ==
    /\ threads[t].pc = "getattr"
    /\ threads' = [threads EXCEPT ![t].pc = "next",
                                  ![t].value = self.cache[Head(threads[t].todo)],
                                  ![t].keys = Append(@, Head(threads[t].todo)),
                                  ![t].todo = Tail(@)]
    /\ UNCHANGED <<fn, args, pc, identifier, namespace, status, response,
                   raised, requests, responses, times, now, outcome, self,
                   file, log>>

NextEntity ==
    \/ \E t \in DOMAIN threads : GetProperty(t)
    \/ \E t \in DOMAIN threads : ToDict(t)
    \/ \E t \in DOMAIN threads : ReadPlain(t)
    \/ \E t \in DOMAIN threads : Return(t)
    \/ \E t \in DOMAIN threads : HasAttr(t)
    \/ \E t \in DOMAIN threads : Fget(t)
    \/ \E t \in DOMAIN threads : SetAttr(t)
    \/ \E t \in DOMAIN threads : GetAttr(t)

\* one thread holds the entity
InitMemo == InitEntity(1, "entity")

SpecMemo == InitMemo /\ [][NextEntity]_vars

\* two threads hold the entity and read one of its memoized properties
InitRace == \E p \in {"synonyms", "sids", "aids", "cids", "standardized_compound"} : InitEntity(2, p)

NextRace ==
    \/ \E t \in DOMAIN threads : GetProperty(t)
    \/ \E t \in DOMAIN threads : Return(t)
    \/ \E t \in DOMAIN threads : HasAttr(t)
    \/ \E t \in DOMAIN threads : Fget(t)
    \/ \E t \in DOMAIN threads : SetAttr(t)
    \/ \E t \in DOMAIN threads : GetAttr(t)

SpecRace == InitRace /\ [][NextRace]_vars

(***************************************************************************)
(* Properties.                                                             *)
(***************************************************************************)
Last(seq) == seq[Len(seq)]

\* a waiting envelope: a JSON body with a Waiting marker carrying a ListKey
WaitingEnvelope(b) == b.json /\ b.top = "Waiting" /\ b.sub = "ListKey"

\* the call goes through get on the polling path: namespace formula, or a
\* search type other than xref
OnPollingPath ==
    /\ fn \in GetFunctions
    /\ (args.namespace = "formula" \/ args.searchtype \notin {None, "", "xref"})

\* get has returned normally
GetReturned == fn \in GetFunctions /\ pc \in {"ret", "done"} /\ raised = <<>>

\* s occurs in the token sequence url
Contains(url, s) ==
    \E o \in 0..(Len(url) - Len(s)) : SubSeq(url, o + 1, o + Len(s)) = s

\* the responses are k >= 1 waiting envelopes with token K, then a final
\* JSON payload
WaitingThenFinal(K) ==
    /\ Len(responses) >= 2
    /\ \A i \in 1..(Len(responses) - 1) :
         responses[i] = Response(200, "OK", WaitingBody(K))
    /\ Last(responses).code = 200
    /\ Last(responses).body.json
    /\ ~WaitingEnvelope(Last(responses).body)

\* C1: on the polling path with JSON output, when the service answers k >= 1
\* requests with a waiting envelope of token K and the next with a final JSON
\* payload, get has returned after exactly k+1 requests, every request after
\* the first has namespace listkey and identifier K (placed in the path), and
\* the value returned is the payload of the last request.
C1_PollsUntilFinalPayload ==
    \A K \in Tokens :
      (OnPollingPath /\ args.output = "JSON" /\ WaitingThenFinal(K))
        => /\ GetReturned
           /\ Len(requests) = Len(responses)
           /\ \A i \in 2..Len(requests) :
                /\ requests[i].namespace = "listkey"
                /\ requests[i].identifier = IdStr(K)
                /\ requests[i].urlid = <<K>>
                /\ Contains(requests[i].url, <<"listkey", "/">> \o K)
           /\ response = <<Last(responses).body>>

\* C1 witness: get has returned after two waiting envelopes and a payload
C1_Witness ==
    /\ fn = "get"
    /\ pc = "ret"
    /\ args.output = "JSON"
    /\ \E K \in Tokens : WaitingThenFinal(K)
    /\ Len(requests) = 3

\* C2 as stated: whenever get returns normally, the payload it returns is
\* not a waiting envelope.
C2_NeverReturnsWaiting ==
    GetReturned => ~WaitingEnvelope(response[1])

\* C2 amended: on the polling path, the last body get decoded before it
\* returns normally is not a waiting envelope, so with JSON output the
\* payload it returns is not a waiting envelope; after any request of that
\* path whose decoded body is a waiting envelope, get goes on polling.
C2_PollingNeverReturnsWaiting ==
    OnPollingPath =>
      /\ GetReturned => (status /= <<>> /\ ~WaitingEnvelope(status[1]))
      /\ (GetReturned /\ args.output = "JSON") => ~WaitingEnvelope(response[1])
      /\ ( /\ responses /= <<>>
           /\ Last(responses).code = 200
           /\ WaitingEnvelope(Last(responses).body)
           /\ Last(requests).output = "JSON" ) => pc = "poll"

\* C2 witness: get returns a payload after a waiting envelope
C2_Witness ==
    /\ OnPollingPath
    /\ fn = "get"
    /\ pc = "ret"
    /\ raised = <<>>
    /\ args.output = "JSON"
    /\ Len(responses) >= 2
    /\ WaitingEnvelope(responses[1].body)
    /\ ~WaitingEnvelope(response[1])

\* C3: on the polling path with an output format other than JSON, the
\* payload get returns is the response to a request made with a poll token
\* of the service, the caller's operation and the caller's output format.
C3_ReturnsCallerFormat ==
    (OnPollingPath /\ args.output /= "JSON" /\ GetReturned)
      => /\ response = <<Last(responses).body>>
         /\ Last(requests).namespace = "listkey"
         /\ Last(requests).operation = args.operation
         /\ Last(requests).output = args.output
         /\ \E i \in 1..Len(responses) :
              /\ responses[i].code = 200
              /\ WaitingEnvelope(responses[i].body)
              /\ Last(requests).identifier = IdStr(responses[i].body.key)

BulkFunctions ==
    {"get_compounds", "get_substances", "get_assays", "get_properties",
     "get_synonyms", "get_cids", "get_sids", "get_aids"}

\* C4: a bulk query function, one of whose requests (the first or a later
\* poll) is answered 404, returns an empty list and does not raise.
C4_NotFoundGivesEmptyList ==
    (fn \in BulkFunctions /\ pc = "done" /\ responses /= <<>>
       /\ Last(responses).code = 404)
      => outcome = Returns(ListValue(<<>>))

\* C5: Compound.from_cid and Substance.from_sid, when the service answers
\* 404, raise NotFoundError and return nothing.
C5_SingleFetchRaisesNotFound ==
    (fn \in {"from_cid", "from_sid"} /\ pc = "done" /\ responses /= <<>>
       /\ Last(responses).code = 404)
      => (outcome.kind = "raise" /\ outcome.exc.cls = "NotFoundError")

\* the functions C6 is about
SwallowingFunctions == BulkFunctions \cup {"get_json", "get_sdf"}

\* some record of the list has atom arrays of different lengths
HasMismatchedAtoms(records) ==
    \E i \in 1..Len(records) : Len(records[i].aid) /= Len(records[i].element)

\* C6: NotFound is the only error swallowed.  In get_json, get_sdf and the
\* bulk query functions an HTTP error of any other kind raised by a request
\* reaches the caller with its class, status code, message and details; a
\* function returns after a failed exchange only when the status was 404;
\* and a ResponseParseError raised while the entities are built reaches
\* the caller.
C6_OnlyNotFoundSwallowed ==
    (fn \in SwallowingFunctions /\ pc = "done")
      => /\ ( /\ responses /= <<>>
              /\ Last(responses).code \notin {200, 404}
              /\ ~create_http_error(Last(responses)).threw )
              => /\ outcome = Raises(create_http_error(Last(responses)).exc)
                 /\ outcome.exc.code = Last(responses).code
                 /\ outcome.exc.cls \in HTTPErrorClasses \ {"NotFoundError"}
         /\ (outcome.kind = "return" /\ responses /= <<>>
               /\ Last(responses).code /= 200)
              => Last(responses).code = 404
         /\ ( /\ fn = "get_compounds"
              /\ raised = <<>>
              /\ response /= <<>>
              /\ response[1].json
              /\ response[1].top = "PC_Compounds"
              /\ HasMismatchedAtoms(response[1].records) )
              => outcome = Raises(PlainExc("ResponseParseError"))

\* C6 witness: get_cids raises the ServerBusyError of a poll request
C6_Witness ==
    /\ fn = "get_cids"
    /\ pc = "done"
    /\ Len(requests) >= 2
    /\ Last(responses).code = 503
    /\ outcome.kind = "raise"
    /\ outcome.exc.cls = "ServerBusyError"
    /\ outcome.exc.code = 503

\* the text of the identifier of a request, as it is sent
SentText(r) ==
    IF r.namespace = "sourceid"
    THEN Replace(IdentifierString(r.identifier), "/", ".")
    ELSE IdentifierString(r.identifier)

\* the condition of C7 for the identifier to go in the path
PathPlacement(r) ==
    \/ r.namespace \in {"listkey", "formula", "sourceid"}
    \/ r.searchtype = "xref"
    \/ (r.searchtype \notin {None, ""} /\ r.namespace = "cid")
    \/ r.domain = "sources"

\* C7: every request places the identifier in the URL path if and only if
\* namespace is listkey, formula or sourceid, or the search type is xref, or
\* a search type is set and namespace is cid, or domain is sources; in every
\* other case the identifier is a POST field named after the namespace and
\* is not in the path.  Exactly one placement is used.
C7_IdentifierPlacement ==
    \A i \in 1..Len(requests) :
      LET r == requests[i] IN
        /\ PathPlacement(r)
             => /\ r.urlid = <<quote(SentText(r))>>
                /\ Contains(r.url, <<"/">> \o quote(SentText(r)))
                /\ r.postdata = <<>>
        /\ ~PathPlacement(r)
             => /\ r.postdata = << <<r.namespace, "=">> \o quote_plus(SentText(r)) >>
                /\ r.urlid = <<>>
                /\ ~Contains(r.url, quote(SentText(r)))
        /\ (r.urlid = <<>>) /= (r.postdata = <<>>)

\* C7 witness: one call has sent a request with the identifier in the body
\* and a request with the identifier in the path
C7_Witness ==
    \E i, j \in 1..Len(requests) :
      /\ requests[i].postdata /= <<>>
      /\ ~PathPlacement(requests[i])
      /\ requests[j].urlid /= <<>>
      /\ PathPlacement(requests[j])

\* an absent or empty identifier: None, the empty string, the empty list
EmptyIdentifier(id) ==
    id.t = "none" \/ (id.t \in {"str", "list"} /\ Len(id.v) = 0)

\* C8: called with an absent or empty identifier, request and every
\* function that calls it issue no HTTP request and end with ValueError.
C8_EmptyIdentifierRejected ==
    (fn \in Functions /\ EmptyIdentifier(args.identifier))
      => /\ requests = <<>>
         /\ pc \in {"call", "ret", "done"}
         /\ pc = "done" => outcome = Raises(PlainExc("ValueError"))

\* C8 witness: get_cids has raised ValueError for the empty string
C8_Witness ==
    /\ fn = "get_cids"
    /\ args.identifier = IdStr(<<>>)
    /\ pc = "done"
    /\ outcome.kind = "raise"
    /\ outcome.exc.cls = "ValueError"
    /\ requests = <<>>

\* the error kind C9 gives for a status code
KindOf(code) ==
    CASE code = 400 -> "BadRequestError"
      [] code = 404 -> "NotFoundError"
      [] code = 405 -> "MethodNotAllowedError"
      [] code = 500 -> "ServerError"
      [] code = 501 -> "UnimplementedError"
      [] code = 503 -> "ServerBusyError"
      [] code = 504 -> "TimeoutError"
      [] OTHER -> "PubChemHTTPError"

\* C9: the error create_http_error produces has the kind of its status
\* code, 400 BadRequest, 404 NotFound, 405 MethodNotAllowed, 500
\* ServerError, 501 Unimplemented, 503 ServerBusy, 504 Timeout, any other
\* code the generic error, and carries that status code.
C9_StatusCodeSelectsKind ==
    (fn = "create_http_error" /\ pc = "done" /\ outcome.kind = "return")
      => /\ outcome.value.items[1].cls = KindOf(args.code)
         /\ outcome.value.items[1].code = args.code

\* C9 witness: a 503 has been classified as ServerBusyError
C9_Witness ==
    /\ fn = "create_http_error"
    /\ pc = "done"
    /\ args.code = 503
    /\ outcome.kind = "return"
    /\ outcome.value.items[1].cls = "ServerBusyError"

\* C10: for a body that is missing, empty, not JSON, or JSON without a
\* well-formed Fault object, create_http_error returns the error of the
\* status code, with the reason phrase as message and no details.
C10_ClassifierNeverThrows ==
    (fn = "create_http_error" /\ pc = "done" /\ args.body.shape /= "fault")
      => outcome = Returns(EntityValue(
                     Exc(KindOf(args.code), args.code, <<args.reason>>, <<>>)))

\* C11: the message of the classified error is the fault Code when present
\* and the reason phrase otherwise, followed by the fault Message when
\* present; its details are the fault Details when present and empty
\* otherwise.  A body holding a Fault object is always classified.
C11_MessageAndDetails ==
    (fn = "create_http_error" /\ pc = "done")
      => LET b == args.body
             fault == b.shape = "fault"
         IN  /\ fault => outcome.kind = "return"
             /\ outcome.kind = "return"
                  => LET e == outcome.value.items[1] IN
                     /\ e.msg[1] = IF fault /\ b.Code /= <<>> THEN b.Code[1]
                                   ELSE args.reason
                     /\ IF fault /\ b.Message /= <<>>
                        THEN Len(e.msg) = 3 /\ e.msg[3] = b.Message[1]
                        ELSE Len(e.msg) = 1
                     /\ e.details = IF fault /\ b.Details /= <<>>
                                    THEN b.Details[1] ELSE <<>>

\* C11 witness: a 404 with Code PUGREST.NotFound and Message m has been
\* classified as a NotFoundError whose message holds both
C11_Witness ==
    /\ fn = "create_http_error"
    /\ pc = "done"
    /\ args.code = 404
    /\ args.body.shape = "fault"
    /\ args.body.Code = <<"PUGREST.NotFound">>
    /\ args.body.Message = <<"m">>
    /\ outcome.kind = "return"
    /\ outcome.value.items[1].cls = "NotFoundError"
    /\ outcome.value.items[1].msg = <<"PUGREST.NotFound", ": ", "m">>

\* a Compound has been constructed from, or assigned, the record in args
CompoundBuilt == fn = "Compound" /\ pc \in {"made", "done"}

\* the atom id and element arrays differ in length
MismatchedAtoms(r) == Len(r.aid) /= Len(r.element)

\* the bond arrays are not all of equal length
MismatchedBonds(r) ==
    /\ r.bonds /= <<>>
    /\ ~(Len(r.bonds[1].aid1) = Len(r.bonds[1].aid2)
         /\ Len(r.bonds[1].aid2) = Len(r.bonds[1].order))

\* the greatest index of seq at which P holds
LastIndex(n, P(_)) == CHOOSE i \in 1..n : P(i) /\ \A j \in (i + 1)..n : ~P(j)

\* C12: construction fails with ResponseParseError whenever the atom id and
\* element arrays differ in length or the bond arrays are not all of equal
\* length; a Compound that is built has an atom for every id listed and a
\* bond for every pair listed, none dropped by truncation.
C12_MismatchIsParseError ==
    CompoundBuilt
      => /\ (MismatchedAtoms(args) \/ MismatchedBonds(args))
              => outcome = Raises(PlainExc("ResponseParseError"))
         /\ outcome.kind = "return"
              => /\ \A i \in 1..Len(args.aid) : args.aid[i] \in DOMAIN self.atoms
                 /\ args.bonds /= <<>>
                      => \A i \in 1..Len(args.bonds[1].aid1) :
                           {args.bonds[1].aid1[i], args.bonds[1].aid2[i]}
                             \in DOMAIN self.bonds

\* the number of atoms of the Compound of a record
NumberOfAtoms(r) == Cardinality(Range(r.aid))

\* the length condition of C13, z absent meaning that the block has no z
CoordLengthsOK(r) ==
    LET c == r.coords[1] IN
      /\ Len(c.aid) = Len(c.x)
      /\ Len(c.x) = Len(c.y)
      /\ Len(c.y) = NumberOfAtoms(r)
      /\ (~c.hasz \/ Len(c.z) = Len(c.aid))

\* the length condition with an empty z taken as an absent one
CoordLengthsOKOrEmptyZ(r) ==
    LET c == r.coords[1] IN
      /\ Len(c.aid) = Len(c.x)
      /\ Len(c.x) = Len(c.y)
      /\ Len(c.y) = NumberOfAtoms(r)
      /\ (~c.hasz \/ c.z = <<>> \/ Len(c.z) = Len(c.aid))

\* every atom listed in the coordinate block carries the x and y of the
\* (last) entry of its id, and its z, or no z when there is none
CoordinatesFilled(r, atoms) ==
    LET c == r.coords[1] IN
      \A a \in DOMAIN atoms :
        (\E i \in 1..Len(c.aid) : c.aid[i] = a)
          => LET i == LastIndex(Len(c.aid), LAMBDA j : c.aid[j] = a) IN
               /\ atoms[a].x = <<c.x[i]>>
               /\ atoms[a].y = <<c.y[i]>>
               /\ atoms[a].z = IF c.z = <<>> THEN <<>> ELSE <<c.z[i]>>

\* C13 as stated: with a coordinate block, construction fails with
\* ResponseParseError unless len(ids) = len(x) = len(y) = number of atoms and
\* z is absent or as long as the ids; a Compound that is built carries the
\* listed coordinates.
C13_CoordinateLengths ==
    (CompoundBuilt /\ args.coords /= <<>> /\ ~MismatchedAtoms(args))
      => /\ ~CoordLengthsOK(args)
              => outcome = Raises(PlainExc("ResponseParseError"))
         /\ outcome.kind = "return" => CoordinatesFilled(args, self.atoms)

\* C13 amended: as C13, with z absent or empty or as long as the ids.
C13_CoordinateLengthsOrEmptyZ ==
    (CompoundBuilt /\ args.coords /= <<>> /\ ~MismatchedAtoms(args))
      => /\ ~CoordLengthsOKOrEmptyZ(args)
              => outcome = Raises(PlainExc("ResponseParseError"))
         /\ outcome.kind = "return" => CoordinatesFilled(args, self.atoms)

\* C13 witness: a Compound of two atoms has been built with x, y and z
C13_Witness ==
    /\ fn = "Compound"
    /\ pc = "made"
    /\ outcome.kind = "return"
    /\ args.coords /= <<>>
    /\ args.coords[1].aid = <<2, 1>>
    /\ self.atoms[1].x = <<20>>
    /\ self.atoms[1].z = <<60>>
    /\ self.atoms[2].y = <<30>>

\* the unordered pairs listed in the bond block of a record
ListedPairs(r) ==
    IF r.bonds = <<>> THEN {}
    ELSE { {r.bonds[1].aid1[i], r.bonds[1].aid2[i]} :
             i \in 1..Len(r.bonds[1].aid1) }

\* C14: after a successful construction or record assignment the bonds are
\* keyed by exactly the unordered pairs listed in the bond block (none when
\* there is no block), one Bond a pair, and the Bond of a pair is that of
\* its last listing.
C14_OneBondPerPair ==
    (CompoundBuilt /\ outcome.kind = "return")
      => /\ DOMAIN self.bonds = ListedPairs(args)
         /\ \A k \in ListedPairs(args) :
              LET b == args.bonds[1]
                  i == LastIndex(Len(b.aid1),
                                 LAMBDA j : {b.aid1[j], b.aid2[j]} = k)
              IN  /\ self.bonds[k].aid1 = b.aid1[i]
                  /\ self.bonds[k].aid2 = b.aid2[i]
                  /\ self.bonds[k].order = b.order[i]

\* C14 witness: a record listing (1, 2) and then (2, 1) has been built into
\* a Compound with the one Bond of the second listing
C14_Witness ==
    /\ fn = "Compound"
    /\ pc = "made"
    /\ outcome.kind = "return"
    /\ args.bonds /= <<>>
    /\ args.bonds[1].aid1 = <<1, 2>>
    /\ args.bonds[1].aid2 = <<2, 1>>
    /\ DOMAIN self.bonds = { {1, 2} }
    /\ self.bonds[{1, 2}].order = 2

\* the style block of a record: <<>> or <<block>>
StyleBlock(r) == IF r.coords = <<>> THEN <<>> ELSE r.coords[1].style

\* C15: in a Compound that is built, a Bond whose unordered pair is named in
\* the style block, in either order, has the annotation of that entry as
\* its style, and every other Bond has no style.
C15_StyleByUnorderedPair ==
    (CompoundBuilt /\ outcome.kind = "return")
      => \A k \in DOMAIN self.bonds :
           LET st == StyleBlock(args)
               named == st /= <<>> /\ \E i \in 1..Len(st[1].aid1) :
                                        {st[1].aid1[i], st[1].aid2[i]} = k
           IN  IF named
               THEN self.bonds[k].style =
                      <<st[1].annotation[
                          LastIndex(Len(st[1].aid1),
                                    LAMBDA j : {st[1].aid1[j], st[1].aid2[j]} = k)]>>
               ELSE self.bonds[k].style = <<>>

\* C15 witness: the bond block lists (1, 2), the style block (2, 1) with
\* annotation 5, and the Bond of the pair has style 5
C15_Witness ==
    /\ fn = "Compound"
    /\ pc = "made"
    /\ outcome.kind = "return"
    /\ args.bonds /= <<>>
    /\ args.bonds[1].aid1 = <<1>>
    /\ args.bonds[1].aid2 = <<2>>
    /\ StyleBlock(args) /= <<>>
    /\ StyleBlock(args)[1].aid1 = <<2>>
    /\ self.bonds[{1, 2}].style = <<5>>

\* the calls in progress
Running == {t \in DOMAIN threads : threads[t].pc /= "idle"}

\* the calls, ended or in progress, that have sent a request
FetchedCalls ==
    Cardinality({i \in DOMAIN log : log[i].fetched})
      + Cardinality({t \in Running : threads[t].fetched})

\* the ended call i returned the value of the memoized property p
Accessed(i, p) ==
    /\ log[i].kind = "return"
    /\ log[i].keys /= <<>>
    /\ Last(log[i].keys) = p

\* every request was sent by a call on the entity, one request a call
LazyFetch == Len(requests) = FetchedCalls

\* the call j began after the call i had ended
Later(i, j) == i < j /\ log[j].started >= i

\* no other call was in progress during the call i: each ended before it
\* began or began after it ended
Alone(i) ==
    /\ \A k \in DOMAIN log : k < i => k <= log[i].started
    /\ \A k \in DOMAIN log : k > i => log[k].started >= i
    /\ \A t \in Running : threads[t].started >= i

\* C16: each deferred collection is fetched lazily and at most once: no
\* request is sent but by an access, and once an access has returned a value
\* every later access returns the same value and sends no request.
C16_FetchedOnce ==
    fn \in Memoized(self.cls) =>
      /\ LazyFetch
      /\ \A i, j \in DOMAIN log :
           Accessed(i, fn) /\ Accessed(j, fn) /\ Later(i, j) =>
             log[j].value = log[i].value /\ ~log[j].fetched

\* C16 as the code has it: once an access during which no other access to
\* the property was in progress has returned a value, every later access
\* returns the same value and sends no request.
C16_FetchedOnceAlone ==
    fn \in Memoized(self.cls) =>
      /\ LazyFetch
      /\ \A i, j \in DOMAIN log :
           Accessed(i, fn) /\ Accessed(j, fn) /\ Later(i, j) /\ Alone(i) =>
             log[j].value = log[i].value /\ ~log[j].fetched

\* an access returned a list alone, and a later access returned it again
C16_Witness ==
    /\ fn \in Memoized(self.cls)
    /\ Len(requests) = 1
    /\ \E i, j \in DOMAIN log :
         /\ Accessed(i, fn) /\ Accessed(j, fn) /\ Later(i, j) /\ Alone(i)
         /\ log[i].fetched
         /\ log[i].value.t = "list"
         /\ log[i].value.items /= <<>>
         /\ log[i].thread /= log[j].thread

\* the first call of thread t, when it has ended
FirstCall(t) == {i \in DOMAIN log : log[i].thread = t /\ \A k \in 1..(i - 1) : log[k].thread /= t}

\* the calls of thread t that have sent a request
FetchedBy(t) ==
    Cardinality({i \in DOMAIN log : log[i].thread = t /\ log[i].fetched})
      + (IF t \in Running /\ threads[t].fetched THEN 1 ELSE 0)

\* the values fget has produced for the property p
FetchedValues(p) ==
    IF FetchArgs(self, p) = <<>> THEN {NoneValue}
    ELSE { FgetResult(p, RequestStep(FetchArgs(self, p)[1], responses[k])).value :
             k \in {n \in DOMAIN responses :
                      FgetResult(p, RequestStep(FetchArgs(self, p)[1],
                                                responses[n])).kind = "return"} }

\* the first accesses of both threads have returned
BothReturned ==
    \A t \in DOMAIN threads : \E i \in FirstCall(t) : Accessed(i, fn)

\* C17: when two threads make the first access to a memoized property, the
\* fetch is made at most twice, at most once by each thread, each thread
\* returns a fetched value, and every access that begins once both have
\* returned returns the cached value and sends no request.
C17_RaceFetchesTwice ==
    fn \in Memoized(self.cls) /\ Cardinality(DOMAIN threads) = 2 /\ BothReturned =>
      /\ Len(requests) <= 2
      /\ \A t \in DOMAIN threads : FetchedBy(t) <= 1
      /\ \A t \in DOMAIN threads : \A i \in FirstCall(t) :
           log[i].value \in FetchedValues(fn)
      /\ \A j \in DOMAIN log :
           (\A t \in DOMAIN threads : \A i \in FirstCall(t) : Later(i, j)) =>
             /\ Accessed(j, fn)
             /\ ~log[j].fetched
             /\ log[j].value = self.cache[fn]

\* both threads fetched, the fetches gave two values, and a later access
\* returned the cached one
C17_Witness ==
    /\ fn \in Memoized(self.cls)
    /\ Cardinality(DOMAIN threads) = 2
    /\ BothReturned
    /\ Len(requests) = 2
    /\ Cardinality(FetchedValues(fn)) = 2
    /\ \A t \in DOMAIN threads : FetchedBy(t) = 1
    /\ \E j \in DOMAIN log :
         /\ \A t \in DOMAIN threads : \A i \in FirstCall(t) : Later(i, j)
         /\ log[j].value = self.cache[fn]
         /\ log[j].value /= log[1].value

\* the properties the default subset of to_dict is said to leave out
Excluded(cls) ==
    IF cls = "Compound"
    THEN {"synonyms", "sids", "aids", "canonical_smiles", "isomeric_smiles"}
    ELSE {"cids", "aids", "standardized_compound"}

Downloaded == fn = "download" /\ pc = "done"

\* C18: when the path holds a file and overwrite is not set, download fails
\* with OSError and the file is as it was; with overwrite set the file holds
\* the fetched bytes.
C18_ExistingFile ==
    Downloaded /\ log /= NoFile =>
      IF ~args.overwrite
      THEN /\ outcome.kind = "raise"
           /\ outcome.exc.cls = "OSError"
           /\ file = log
      ELSE raised = <<>> => file = <<Last(responses).body>>

\* C18 as the code has it: get is called first, so when the path holds a
\* file and overwrite is not set download fails with the exception of get
\* when get raises and with OSError otherwise, and the file is as it was;
\* with overwrite set the file holds the fetched bytes when get returns and
\* is as it was when get raises.
C18_ExistingFileKept ==
    Downloaded /\ log /= NoFile =>
      IF ~args.overwrite
      THEN /\ outcome.kind = "raise"
           /\ outcome.exc = (IF raised /= <<>> THEN raised[1]
                             ELSE PlainExc("OSError"))
           /\ file = log
      ELSE IF raised = <<>>
           THEN outcome.kind = "return" /\ file = <<Last(responses).body>>
           ELSE outcome = Raises(raised[1]) /\ file = log

\* the bytes were fetched, the path held a file, overwrite was not set:
\* OSError, and the file is as it was
C18_Witness ==
    /\ Downloaded
    /\ log = <<OldBytes>>
    /\ ~args.overwrite
    /\ raised = <<>>
    /\ requests /= <<>>
    /\ Last(responses).code = 200
    /\ outcome.kind = "raise"
    /\ outcome.exc.cls = "OSError"
    /\ file = <<OldBytes>>

\* _parse_prop has returned
Parsed == fn = "_parse_prop" /\ pc = "done"

\* the entries of the list that carry every pair of the filter
Matching == {k \in DOMAIN args.proplist :
               args.search \subseteq args.proplist[k].urn}

\* C20: _parse_prop returns the value payload of the first entry whose urn
\* holds every pair of the filter, and None, with no error, when no entry
\* does; the entry it returns differs from the filter on no filtered tag.
C20_FirstMatch ==
    Parsed =>
      /\ outcome.kind = "return"
      /\ Matching = {} => outcome.value = NoneValue
      /\ \A k \in Matching :
           (\A j \in Matching : k <= j) =>
             /\ outcome.value = ScalarValue(args.proplist[k].value[1][2])
             /\ \A pair \in args.search : \A other \in args.proplist[k].urn :
                  other[1] = pair[1] => other[2] = pair[2]

\* the Absolute entry comes first, the filter asks for Connectivity, and the
\* payload of the Connectivity entry that follows is returned
C20_Witness ==
    /\ Parsed
    /\ args.search = Urn("SMILES", <<"Connectivity">>)
    /\ Len(args.proplist) = 3
    /\ args.proplist[1].urn = Urn("SMILES", <<"Absolute">>)
    /\ args.proplist[1].value[1][2] = 1
    /\ args.proplist[2].urn = Urn("SMILES", <<"Connectivity">>)
    /\ args.proplist[2].value[1][2] = 2
    /\ args.proplist[3].urn = Urn("SMILES", <<"Connectivity">>)
    /\ args.proplist[3].value[1][2] = 1
    /\ outcome.value = ScalarValue(2)

\* the request r with the identifier s, a string, for its own
Redirected(r, s) ==
    BuildRequest(IdStr(s), r.namespace, r.domain, r.operation, r.output,
                 r.searchtype)

\* C21: with namespace sourceid every "/" of the identifier is a "." in the
\* path, so the URL is the URL of the identifier written with "." for "/";
\* with any other namespace the slashes of the identifier are kept, as "/"
\* in the path and as "%2F" in the form.
C21_SourceIdSlash ==
    \A k \in DOMAIN requests :
      LET r == requests[k]
          id == IdentifierString(r.identifier)
      IN  IF r.namespace = "sourceid"
          THEN /\ r.url = Redirected(r, Replace(id, "/", ".")).url
               /\ r.postdata = <<>>
               /\ \A i \in DOMAIN id : id[i] = "/" => r.urlid[1][i] = "."
          ELSE IF r.urlid /= <<>>
               THEN \A i \in DOMAIN id : id[i] = "/" => r.urlid[1][i] = "/"
               ELSE \A i \in DOMAIN id :
                      id[i] = "/" => r.postdata[1][i + 2] = "%2F"

\* request was called with namespace sourceid and an identifier with a
\* slash, and sent the URL of the dotted identifier
C21_Witness ==
    /\ fn = "request"
    /\ pc = "done"
    /\ args.namespace = "sourceid"
    /\ args.identifier = IdStr(<<"a", "/", "b">>)
    /\ Len(requests) = 1
    /\ requests[1].urlid = << <<"a", ".", "b">> >>
    /\ requests[1].url = Redirected(requests[1], <<"a", ".", "b">>).url

\* C22: the element of an Atom whose atomic number is not in the element
\* table is None.
C22_UnknownElementIsNone ==
    fn = "Atom.element" /\ pc = "done" /\ args.number \notin ElementNumbers =>
      outcome = Returns(NoneValue)

\* the four bits of a hex digit
HexBits(c) ==
    CASE c = "0" -> <<"0", "0", "0", "0">>
      [] c = "1" -> <<"0", "0", "0", "1">>
      [] c = "7" -> <<"0", "1", "1", "1">>
      [] c = "8" -> <<"1", "0", "0", "0">>
      [] OTHER -> <<"1", "1", "1", "1">>

\* the bits of the hex text s, four a digit
RawBits(s) == [i \in 1..(4 * Len(s)) |-> HexBits(s[(i + 3) \div 4])[((i - 1) % 4) + 1]]

\* C23: for a raw fingerprint of a 4-byte prefix, the fingerprint bits and 7
\* padding bits, cactvs_fingerprint is a string of as many characters as
\* there are fingerprint bits (881 in the code), each "0" or "1", equal to
\* the bits after the first 4 bytes without the last 7, leading zeros
\* included.
C23_Fingerprint ==
    fn = "cactvs_fingerprint" /\ pc = "done" =>
      /\ outcome.kind = "return"
      /\ Len(outcome.value.items) = FingerprintBits
      /\ \A i \in DOMAIN outcome.value.items :
           outcome.value.items[i] \in {"0", "1"}
      /\ outcome.value.items =
           SubSeq(RawBits(SubSeq(args, 9, Len(args))), 1, FingerprintBits)

\* a fingerprint with leading zero bits and a set bit among the last
\* fingerprint bits and among the padding
C23_Witness ==
    /\ fn = "cactvs_fingerprint"
    /\ pc = "done"
    /\ Len(args) = 8 + HexDigits
    /\ args[9] = "0"
    /\ args[10] = "1"
    /\ args[Len(args) - 1] = "8"
    /\ args[Len(args)] = "F"
    /\ outcome.value.items[1] = "0"
    /\ outcome.value.items[8] = "1"
    /\ outcome.value.items[FingerprintBits] = "1"

\* the response k of the call is a waiting envelope
WaitingAt(k) == responses[k].code = 200 /\ WaitingEnvelope(responses[k].body)

\* C24: within one call of get, every request after the first is sent no
\* sooner than the delay after the response before it.
C24_DelayBetweenRoundTrips ==
    fn \in GetFunctions =>
      \A k \in 2..Len(times) : times[k] >= times[k - 1] + PollDelay

\* C24 as the code has it: a request that follows a waiting envelope is sent
\* no sooner than the delay after it; the last request, in the caller's
\* format, follows a poll response that is no waiting envelope and is sent
\* with no delay.
C24_DelayBetweenPolls ==
    fn \in GetFunctions =>
      \A k \in 2..Len(times) :
        IF WaitingAt(k - 1)
        THEN /\ times[k] >= times[k - 1] + PollDelay
             /\ requests[k].output = "JSON"
        ELSE /\ times[k] = times[k - 1]
             /\ k = Len(times)
             /\ k >= 3
             /\ requests[k].output = args.output
             /\ args.output /= "JSON"

\* a call of three requests: the first, a poll after the delay, and the
\* last one sent at the time of the poll
C24_Witness ==
    /\ fn \in GetFunctions
    /\ pc = "done"
    /\ Len(times) = 3
    /\ WaitingAt(1)
    /\ ~WaitingAt(2)
    /\ times = <<0, PollDelay, PollDelay>>

\* the request k of the call is the first request or a poll: it is the
\* first, or it follows a waiting envelope
Polls(k) == k = 1 \/ WaitingAt(k - 1)

\* get stays in its loop for as long as the polls are answered by waiting
\* envelopes, however many
KeepsPolling ==
    fn \in GetFunctions /\ PollingPath(args) /\ responses /= <<>>
      /\ Polls(Len(responses)) /\ WaitingAt(Len(responses))
    => pc = "poll"

\* C25: get ends once the service has answered a request with something
\* other than a waiting envelope, and it has no ceiling of attempts: after
\* any number of waiting envelopes it polls again.
C25_Terminates == <>(pc = "done") /\ []KeepsPolling

\* get ended after as many waiting envelopes as the service gives
C25_Witness ==
    /\ fn \in GetFunctions
    /\ pc = "done"
    /\ WaitingCount(responses) = MaxWaiting
    /\ Len(responses) = MaxWaiting + 1

\* C26: when a request of get (the first, a poll or the last) is answered
\* with an HTTP error, get raises the classified error there and sends no
\* further request.
C26_NoRetry ==
    fn \in GetFunctions =>
      \A k \in DOMAIN responses :
        responses[k].code /= 200 =>
          /\ k = Len(responses)
          /\ Len(requests) = k
          /\ pc \in {"ret", "done"}
          /\ raised /= <<>>
          /\ raised[1].cls = KindOf(responses[k].code)
          /\ raised[1].code = responses[k].code

\* C27: the request get sends after a waiting envelope has namespace listkey
\* and, as identifier, the token of that envelope, also when an earlier
\* envelope had another token.
C27_LatestToken ==
    fn \in GetFunctions =>
      \A k \in 1..(Len(requests) - 1) :
        WaitingAt(k) =>
          /\ requests[k + 1].namespace = "listkey"
          /\ requests[k + 1].identifier = IdStr(responses[k].body.key)

\* the entries of the coordinate block whose id is the id of no atom
Unmatched(r) ==
    {i \in 1..Len(r.coords[1].aid) : r.coords[1].aid[i] \notin Range(r.aid)}

\* C28: when the coordinate arrays pass the length checks and the id of a
\* coordinate entry is the id of no atom, construction ends without an error
\* and no atom has the coordinates of that entry: every atom has those of an
\* entry of its own id, or none.
C28_UnmatchedCoordinateSkipped ==
    (fn = "Compound" /\ pc = "made" /\ ~MismatchedAtoms(args)
       /\ args.coords /= <<>> /\ args.charge = <<>> /\ CoordLengthsOK(args)
       /\ Unmatched(args) /= {})
      => /\ outcome.kind = "return"
         /\ \A a \in DOMAIN self.atoms :
              \/ self.atoms[a].x = <<>>
              \/ \E i \in 1..Len(args.coords[1].aid) :
                   /\ args.coords[1].aid[i] = a
                   /\ self.atoms[a].x = <<args.coords[1].x[i]>>

\* the atoms and bonds of the Compound are those derived from its record
Derived ==
    (fn = "Compound" /\ self.cls = "Compound"
       /\ (pc = "done" \/ (pc = "made" /\ outcome.kind = "return")))
      => /\ SetupAtoms(self.record).exc = ""
         /\ SetupBonds(self.record).exc = ""
         /\ self.atoms = SetupAtoms(self.record).atoms
         /\ self.bonds = SetupBonds(self.record).bonds

\* C30: an assignment of a record that fails with ResponseParseError leaves
\* the record, the atoms and the bonds of the Compound as they were, and in
\* every state the atoms and bonds are those derived from the record held.
C30_AssignmentAllOrNothing ==
    /\ [][(fn = "Compound" /\ pc = "made" /\ pc' = "done"
             /\ outcome' = Raises(PlainExc("ResponseParseError")))
            => self' = self]_vars
    /\ []Derived

\* the property on which the ended call i raised
RaisedOn(i) ==
    IF log[i].op = "getattr" THEN log[i].args[1]
    ELSE ToDictProperties(self.cls, log[i].args)[Len(log[i].keys) + 1]

\* the ended call i read the memoized property p, or raised reading it
Reads(i, p) ==
    \/ p \in Range(log[i].keys)
    \/ log[i].kind = "raise" /\ RaisedOn(i) = p

\* the call j is the first after the call i to read the property p
NextAccess(i, j, p) ==
    /\ i < j
    /\ Reads(j, p)
    /\ \A k \in (i + 1)..(j - 1) : ~Reads(k, p)

\* the values the fetches of the property p have returned: None without a
\* request for an entity that has no request to send
ReturnedFetches(p) ==
    LET a == FetchArgs(self, p)
    IN  IF a = <<>> THEN {NoneValue}
        ELSE { FgetResult(p, RequestStep(a[1], responses[k])).value :
                 k \in {n \in DOMAIN responses :
                          /\ <<requests[n]>> = RequestStep(a[1], responses[n]).sent
                          /\ FgetResult(p, RequestStep(a[1], responses[n])).kind
                               = "return"} }

\* C29: when the fetch behind a memoized property raises, the exception
\* leaves the access, the attribute of the property is not set, and the next
\* access to the property sends the request again; an attribute that is set
\* holds a value a fetch of its property returned (the empty list after
\* NotFound, None for a Compound without a CID).
C29_RaisedFetchNotCached ==
    Cardinality(DOMAIN threads) = 1 =>
      /\ \A i \in DOMAIN log :
           log[i].kind = "raise" =>
             /\ log[i].exc.cls /= ""
             /\ log[i].fetched
             /\ RaisedOn(i) \notin log[i].after
             /\ \A j \in DOMAIN log :
                  NextAccess(i, j, RaisedOn(i)) =>
                    /\ RaisedOn(i) \notin log[j].before
                    /\ log[j].fetched
                    /\ Len(requests) >= 2
      /\ \A p \in DOMAIN self.cache : self.cache[p] \in ReturnedFetches(p)

\* a fetch raised, the next access fetched again and got NotFound, which
\* cached the empty list, and a third access returned it without a request
C29_Witness ==
    /\ Cardinality(DOMAIN threads) = 1
    /\ Len(log) = 3
    /\ Len(requests) = 2
    /\ log[1].kind = "raise"
    /\ log[1].after = {}
    /\ NextAccess(1, 2, RaisedOn(1))
    /\ log[2].kind = "return"
    /\ log[2].fetched
    /\ responses[2].code = 404
    /\ self.cache[RaisedOn(1)] = ListValue(<<>>)
    /\ NextAccess(2, 3, RaisedOn(1))
    /\ ~log[3].fetched
    /\ log[3].value = ListValue(<<>>)

====
